---- MODULE Spec2Model ----
(***************************************************************************)
(* Model of the FinnovaRisk ETL (FnInteligenciaNegocios): identifier       *)
(* normalisation and composite keys (transformadores/base.py, r05.py,      *)
(* recaudos.py, edades.py), delinquency buckets and duplicate collapsing    *)
(* of the portfolio (transformadores/analisis_cartera.py), and the joins of *)
(* the builders (procesadores/cosechas.py, crm.py, comportamiento.py), the  *)
(* run of main() (procesadores/procesador.py) and the order of the steps    *)
(* of the transformers (transformadores/fnz001.py, analisis_cartera.py).    *)
(* Further sections model the loader's rename of the days-past-due column  *)
(* (cargador_datos/cargador.py), the optional joins of the cohort on tables *)
(* that lack a column, the ranges and the output columns of the CRM, the    *)
(* wide pivot, and the builders as consumers of shared DataFrame objects.   *)
(*                                                                          *)
(* Strings are sequences of one-character strings, so that strip, float     *)
(* parsing and str() are computed and not assumed.  Numbers that pass       *)
(* through Python floats are decimal digit sequences, so that the 53-bit    *)
(* mantissa of a float is kept where it matters.                            *)
(***************************************************************************)
EXTENDS Integers, Sequences, FiniteSets, TLC

VARIABLES
    raw,        \* normalisation: the raw cell of an identifier column
    out1,       \* limpiar_valor(raw)
    out2,       \* limpiar_valor(out1): the column cleaned a second time
    npc,        \* "in" | "once" | "twice"
    ksrc,       \* keys: the two source transformers compared
    kraw,       \* the raw (cedula, numero) cells each of the two received
    kkey,       \* the cedula_numero each of the two built
    kpc,        \* "in" | "done"
    dfMora,     \* buckets: rows [diasatras, mora, Mora] of the portfolio
    mpc,        \* "in" | "ac" | "comportamiento"
    df_ac,      \* duplicates: the portfolio table, rows in load order
    df_final,   \* manejar_duplicados_ac(df_ac)
    dpc,        \* "in" | "done"
    caso,       \* joins: which left join runs ("crm" | "valor" | "categorias")
    izq,        \* the left table of the join
    der,        \* the right table of the join
    res,        \* the joined table
    jpc,        \* "in" | "done"
    crudos,     \* cosechas: the loaded source tables, before the transformers
    tablas,     \* the transformed source tables
    llaves_vacias, \* the empty keys each transformer counted and warned about
    Cosechas,   \* the table crear_cosechas returns
    eliminados, \* the rows crear_cosechas filtered out
    cpc,        \* "in" | "transformed" | "unido" | "done"
    pivote,     \* gap-fill: the pivoted behaviour table, a row per cedula_numero
    hay_calificacion, \* whether the table has the 'calificacion' column
    ComportamientoH,  \* procesar_columnas_mora(pivote)
    hpc,        \* "in" | "done"
    cargas,     \* run: what loading each dataset gives ("datos" | "vacio" | "error")
    disponibles, \* the secondary datasets whose table is not None
    pasos,      \* the transformation, join, builder and export steps run so far
    advertencias, \* the run-level list of warnings
    resumen,    \* the summary written to logs/resumen_ejecucion.json
    salida,     \* the exit status of the process (SinSalida while it runs)
    rpc,        \* the position of main()
    fuente_llave, \* key column: the transformer that runs ("ac" | "r05")
    tabla_llave,  \* the table it receives: [columnas, filas]
    res_llave,    \* what it gives: [levanta, df]
    lpc,          \* "in" | "done"
    fuente_ord,   \* step order: the source transformed ("ac" | "fnz007")
    tabla_ord,    \* its table: [columnas, filas], the names as the sheet has them
    bitacora,     \* the steps of the transformer that have run, in order
    opc,          \* the position in the transformer
    fuente_drift, \* cohort joins: the optional table joined ("edades" | "r05" | "recaudos")
    cosechas_drift, \* the cohort built so far
    tabla_drift,  \* the optional table: [columnas, filas]
    res_drift,    \* what the join step gives: [levanta, cosechas]
    xpc,          \* "in" | "done"
    Comportamiento, \* behaviour pivot: the projected portfolio table, a row per key and corte
    df_pivotado,  \* pivotar_comportamiento(Comportamiento): [columnas, filas]
    ppc,          \* "in" | "done"
    entradas,     \* builders: the unified base and the portfolio table as they were built
    objetos,      \* the DataFrame objects of the run, by the name they are bound to
    construidos   \* the builders that have run

normVars == <<raw, out1, out2, npc>>
keyVars == <<ksrc, kraw, kkey, kpc>>
moraVars == <<dfMora, mpc>>
dupVars == <<df_ac, df_final, dpc>>
joinVars == <<caso, izq, der, res, jpc>>
cosVars == <<crudos, tablas, llaves_vacias, Cosechas, eliminados, cpc>>
gapVars == <<pivote, hay_calificacion, ComportamientoH, hpc>>
runVars == <<cargas, disponibles, pasos, advertencias, resumen, salida, rpc>>
llaveVars == <<fuente_llave, tabla_llave, res_llave, lpc>>
ordVars == <<fuente_ord, tabla_ord, bitacora, opc>>
driftVars == <<fuente_drift, cosechas_drift, tabla_drift, res_drift, xpc>>
pivVars == <<Comportamiento, df_pivotado, ppc>>
objVars == <<entradas, objetos, construidos>>
masVars == <<gapVars, runVars, llaveVars, ordVars, driftVars, pivVars, objVars>>
vars == <<normVars, keyVars, moraVars, dupVars, joinVars, cosVars, masVars>>

\* What each part of the model leaves alone.
sinNorm == <<keyVars, moraVars, dupVars, joinVars, cosVars, masVars>>
sinKey == <<normVars, moraVars, dupVars, joinVars, cosVars, masVars>>
sinMora == <<normVars, keyVars, dupVars, joinVars, cosVars, masVars>>
sinDup == <<normVars, keyVars, moraVars, joinVars, cosVars, masVars>>
sinJoin == <<normVars, keyVars, moraVars, dupVars, cosVars, masVars>>
sinCos == <<normVars, keyVars, moraVars, dupVars, joinVars, masVars>>
sinGap == <<normVars, keyVars, moraVars, dupVars, joinVars, cosVars, runVars, llaveVars, ordVars, driftVars, pivVars, objVars>>
sinRun == <<normVars, keyVars, moraVars, dupVars, joinVars, cosVars, gapVars, llaveVars, ordVars, driftVars, pivVars, objVars>>
sinLlave == <<normVars, keyVars, moraVars, dupVars, joinVars, cosVars, gapVars, runVars, ordVars, driftVars, pivVars, objVars>>
sinOrd == <<normVars, keyVars, moraVars, dupVars, joinVars, cosVars, gapVars, runVars, llaveVars, driftVars, pivVars, objVars>>
sinDrift == <<normVars, keyVars, moraVars, dupVars, joinVars, cosVars, gapVars, runVars, llaveVars, ordVars, pivVars, objVars>>
sinPiv == <<normVars, keyVars, moraVars, dupVars, joinVars, cosVars, gapVars, runVars, llaveVars, ordVars, driftVars, objVars>>
sinObj == <<normVars, keyVars, moraVars, dupVars, joinVars, cosVars, gapVars, runVars, llaveVars, ordVars, driftVars, pivVars>>

(***************************************************************************)
(* Bounds of the model.                                                     *)
(***************************************************************************)
MaxLen == 4        \* longest raw string cell
MaxDigits == 2     \* longest integer part of a small raw number
MaxFrac == 1       \* longest fractional part of a raw float
MaxPad == 1        \* most blanks around a padded identifier
MaxDias == 215     \* most days past due of a row
MinDias == 3       \* days past due go down to -MinDias
MaxFilas == 3      \* most rows of a table of the duplicates and join models
MaxFilasCos == 2   \* most rows of a loaded source table of the cosechas model

(***************************************************************************)
(* Characters and digit sequences.                                          *)
(***************************************************************************)
Digits == <<"0", "1", "2", "3", "4", "5", "6", "7", "8", "9">>
DigitChars == {Digits[i] : i \in 1..10}
DigitVal(c) == (CHOOSE i \in 1..10 : Digits[i] = c) - 1
DigitChr(n) == Digits[n + 1]

\* The characters raw string cells are drawn from: digits, the decimal point,
\* a sign, a blank and a letter.
Alphabet == {"0", "1", "5", ".", "-", " ", "a"}
SmallDigits == {"0", "1", "5"}

SeqsUpTo(S, n) == UNION {[1..k -> S] : k \in 0..n}

RECURSIVE LStrip(_)
LStrip(s) == IF s # <<>> /\ Head(s) = " " THEN LStrip(Tail(s)) ELSE s

RECURSIVE RStrip(_)
RStrip(s) ==
    IF s # <<>> /\ s[Len(s)] = " " THEN RStrip(SubSeq(s, 1, Len(s) - 1)) ELSE s

\* str.strip()
Strip(s) == RStrip(LStrip(s))

RECURSIVE StripLeadingZeros(_)
StripLeadingZeros(ds) ==
    IF Len(ds) > 1 /\ Head(ds) = "0" THEN StripLeadingZeros(Tail(ds))
    ELSE IF ds = <<>> THEN <<"0">> ELSE ds

RECURSIVE StripTrailingZeros(_)
StripTrailingZeros(ds) ==
    IF ds # <<>> /\ ds[Len(ds)] = "0"
    THEN StripTrailingZeros(SubSeq(ds, 1, Len(ds) - 1)) ELSE ds

\* ds + 1 on a decimal digit sequence
RECURSIVE IncDigits(_)
IncDigits(ds) ==
    IF ds = <<>> THEN <<"1">>
    ELSE LET n == Len(ds)
             d == DigitVal(ds[n])
         IN IF d < 9 THEN SubSeq(ds, 1, n - 1) \o <<DigitChr(d + 1)>>
            ELSE IncDigits(SubSeq(ds, 1, n - 1)) \o <<"0">>

\* ds - 1 for a digit sequence whose last digit is not 0
DecDigits(ds) ==
    SubSeq(ds, 1, Len(ds) - 1) \o <<DigitChr(DigitVal(ds[Len(ds)]) - 1)>>

\* a > b for digit sequences of the same length
RECURSIVE GreaterDigits(_, _)
GreaterDigits(a, b) ==
    /\ a # <<>>
    /\ \/ DigitVal(Head(a)) > DigitVal(Head(b))
       \/ Head(a) = Head(b) /\ GreaterDigits(Tail(a), Tail(b))

(***************************************************************************)
(* Python floats.  A number is [neg, ip, fp]: sign, integer digits without  *)
(* leading zeros, fractional digits without trailing zeros.                 *)
(***************************************************************************)
\* 2^53 = 9007199254740992: above it a float holds only even integers.
Pow2_53 == <<"9", "0", "0", "7", "1", "9", "9", "2", "5", "4", "7", "4",
             "0", "9", "9", "2">>

Num(neg, ip, fp) == [neg |-> neg, ip |-> ip, fp |-> fp]

\* The value of the last two digits modulo 4 (100 is a multiple of 4).
Mod4(ds) ==
    LET n == Len(ds)
        d0 == DigitVal(ds[n])
        d1 == IF n > 1 THEN DigitVal(ds[n - 1]) ELSE 0
    IN (10 * d1 + d0) % 4

\* Rounding of a decimal to the nearest float (ties to even), for decimals
\* below 10^16: exact up to 2^53 (within 15 significant digits), and to the
\* nearest even integer in [2^53, 10^16), where the floats are 2 apart.
RoundToFloat(x) ==
    IF Len(x.ip) = 16 /\ GreaterDigits(x.ip, Pow2_53)
    THEN LET m == Mod4(x.ip)
         IN IF m \in {0, 2} THEN Num(x.neg, x.ip, <<>>)
            ELSE IF x.fp # <<>> \/ m = 3 THEN Num(x.neg, IncDigits(x.ip), <<>>)
            ELSE Num(x.neg, DecDigits(x.ip), <<>>)
    ELSE x

NoParse == [ok |-> FALSE, neg |-> FALSE, ip |-> <<>>, fp |-> <<>>]

\* float(s) for a stripped string over digits, ".", "-" and "+":
\* [sign] digits ["." [digits]] | [sign] "." digits.  ok = FALSE is ValueError.
ParseFloat(s) ==
    LET signed == s # <<>> /\ Head(s) \in {"-", "+"}
        body == IF signed THEN Tail(s) ELSE s
        dots == {i \in 1..Len(body) : body[i] = "."}
        dot == IF dots = {} THEN Len(body) + 1 ELSE CHOOSE i \in dots : TRUE
        ipRaw == SubSeq(body, 1, dot - 1)
        fpRaw == SubSeq(body, dot + 1, Len(body))
        wellFormed ==
            /\ Cardinality(dots) <= 1
            /\ \A i \in 1..Len(body) : body[i] \in DigitChars \cup {"."}
            /\ Len(ipRaw) + Len(fpRaw) >= 1
    IN IF ~wellFormed THEN NoParse
       ELSE LET f == RoundToFloat(Num(signed /\ Head(s) = "-",
                                      StripLeadingZeros(ipRaw),
                                      StripTrailingZeros(fpRaw)))
            IN [ok |-> TRUE, neg |-> f.neg, ip |-> f.ip, fp |-> f.fp]

\* valor == int(valor)
IsIntegral(x) == x.fp = <<>>

\* str(int(x)): int(-0.0) is 0
StrInt(x) == IF x.neg /\ x.ip # <<"0">> THEN <<"-">> \o x.ip ELSE x.ip

\* str(x) of a non-integral float in repr's positional range
\* (1e-4 <= |x| < 1e16): the shortest decimal that reads back as x.
StrFloat(x) == (IF x.neg THEN <<"-">> ELSE <<>>) \o x.ip \o <<".">> \o x.fp

(***************************************************************************)
(* Raw cells of an identifier column.                                       *)
(***************************************************************************)
RawNull == [t |-> "null", neg |-> FALSE, ip |-> <<>>, fp |-> <<>>, s |-> <<>>]
RawInt(neg, ip) == [t |-> "int", neg |-> neg, ip |-> ip, fp |-> <<>>, s |-> <<>>]
RawFloat(neg, ip, fp) ==
    [t |-> "float", neg |-> neg, ip |-> ip, fp |-> fp, s |-> <<>>]
RawStr(s) == [t |-> "str", neg |-> FALSE, ip |-> <<>>, fp |-> <<>>, s |-> s]

\* integer parts without leading zeros
SmallIps ==
    {ds \in SeqsUpTo(SmallDigits, MaxDigits) : ds # <<>> /\ StripLeadingZeros(ds) = ds}
\* fractional parts without trailing zeros
SmallFps ==
    {ds \in SeqsUpTo(SmallDigits, MaxFrac) : StripTrailingZeros(ds) = ds}

\* 2^53 .. 2^53 + 3: integers an int64 column holds and a float may not
BigIps == {Pow2_53, IncDigits(Pow2_53), IncDigits(IncDigits(Pow2_53)),
           IncDigits(IncDigits(IncDigits(Pow2_53)))}

RawInts ==
    {RawInt(neg, ip) : neg \in BOOLEAN, ip \in SmallIps \cup BigIps}
        \ {RawInt(TRUE, <<"0">>)}
RawFloats == {RawFloat(neg, ip, fp) : neg \in BOOLEAN, ip \in SmallIps, fp \in SmallFps}
RawStrs == {RawStr(s) : s \in SeqsUpTo(Alphabet, MaxLen)}
RawValues == {RawNull} \cup RawInts \cup RawFloats \cup RawStrs

(***************************************************************************)
(* base.py: limpiar_columna_identificador / limpiar_valor                   *)
(***************************************************************************)
\* A variant that returns every string that is not an integral number trimmed
\* and unchanged, without str() of the parsed float.
limpiar_valor_recortada(valor) ==
    IF valor.t = "null" THEN <<>>
    ELSE IF valor.t = "int" THEN StrInt(valor)
    ELSE IF valor.t = "float"
    THEN IF IsIntegral(valor) THEN StrInt(valor) ELSE StrFloat(valor)
    ELSE LET valor_str == Strip(valor.s)
             valor_float == ParseFloat(valor_str)
         IN IF valor_float.ok /\ IsIntegral(valor_float) THEN StrInt(valor_float)
            ELSE valor_str

limpiar_valor(valor) ==
    IF valor.t = "null" THEN <<>>
    ELSE IF valor.t = "int" THEN StrInt(valor)
    ELSE IF valor.t = "float"
    THEN IF IsIntegral(valor) THEN StrInt(valor) ELSE StrFloat(valor)
    ELSE LET valor_str == Strip(valor.s)
             valor_float == ParseFloat(valor_str)
         IN IF ~valor_float.ok THEN valor_str
            ELSE IF IsIntegral(valor_float) THEN StrInt(valor_float)
            ELSE StrFloat(valor_float)

\* base.py: limpiar_columnas_numericas_como_string, on one cell of a listed
\* column: the cell is replaced by its cleaned string.
limpiar_columnas_numericas_como_string(valor) == RawStr(limpiar_valor(valor))

\* base.py: crear_llave_cedula_numero, on one row: both columns are cleaned,
\* then joined by the separator.
crear_llave_cedula_numero(cedula, numero, separador) ==
    limpiar_valor(cedula) \o separador \o limpiar_valor(numero)

\* r05.py: convertir_tipos_r05 cleans 'cedula' and 'numero' (lines 151-157).
convertir_tipos_r05(valor) == RawStr(limpiar_valor(valor))

\* r05.py: crear_llave_cedula_numero_r05: df['cedula'] + '-' + df['numero']
crear_llave_cedula_numero_r05(cedula, numero) == cedula.s \o <<"-">> \o numero.s

\* The cedula_numero each source transformer builds from a row's raw cells.
\* analisis_cartera.py: procesar_analisis_cartera (steps 2 and 4)
LlaveAC(cedula, numero) ==
    crear_llave_cedula_numero(limpiar_columnas_numericas_como_string(cedula),
                              limpiar_columnas_numericas_como_string(numero), <<"-">>)
\* edades.py: procesar_edades (step 2)
LlaveEdades(cc_nit, numero) == crear_llave_cedula_numero(cc_nit, numero, <<"-">>)
\* recaudos.py: procesar_recaudos (lines 51-52 and step 4)
LlaveRecaudos(cedula, numero) ==
    crear_llave_cedula_numero(limpiar_columnas_numericas_como_string(cedula),
                              limpiar_columnas_numericas_como_string(numero), <<"-">>)
\* r05.py: procesar_r05 (steps 4 and 5)
LlaveR05(nit, mcnnumcru2) ==
    crear_llave_cedula_numero_r05(convertir_tipos_r05(nit), convertir_tipos_r05(mcnnumcru2))

Fuentes == {"ac", "edades", "recaudos", "r05"}

LlaveDe(fuente, cedula, numero) ==
    CASE fuente = "ac" -> LlaveAC(cedula, numero)
      [] fuente = "edades" -> LlaveEdades(cedula, numero)
      [] fuente = "recaudos" -> LlaveRecaudos(cedula, numero)
      [] fuente = "r05" -> LlaveR05(cedula, numero)

(***************************************************************************)
(* Delinquency buckets: analisis_cartera.py crear_columna_mora_ac and       *)
(* comportamiento.py crear_columna_mora.  A 'diasatras' cell is a number    *)
(* [t = "num", v], a text that is no number, or NaN.                        *)
(***************************************************************************)
NULL == "NULL"
NaN == [t |-> "nan", v |-> 0]
NoNumerico == [t |-> "txt", v |-> 0]
Numero(n) == [t |-> "num", v |-> n]

\* pd.to_numeric(errors='coerce') on one cell: a number stays, a text that is
\* not a number becomes NaN.
to_numeric(celda) == IF celda.t = "num" THEN celda ELSE NaN

choices == <<"A1", "A2", "B1", "B2", "C1", "C2", "D1", "D2", "EE">>

\* A comparison with NaN is False.
Eq(d, n) == d.t = "num" /\ d.v = n
Gt(d, n) == d.t = "num" /\ d.v > n
Le(d, n) == d.t = "num" /\ d.v <= n

\* A variant whose B1 range starts at 30 and overlaps A2.
conditions_ac_solapadas(d) ==
    << Eq(d, 0),
       Gt(d, 0) /\ Le(d, 30),
       Gt(d, 29) /\ Le(d, 60),
       Gt(d, 60) /\ Le(d, 90),
       Gt(d, 90) /\ Le(d, 120),
       Gt(d, 120) /\ Le(d, 150),
       Gt(d, 150) /\ Le(d, 180),
       Gt(d, 180) /\ Le(d, 210),
       Gt(d, 210) >>

\* analisis_cartera.py lines 146-156
conditions_ac(d) ==
    << Eq(d, 0),
       Gt(d, 0) /\ Le(d, 30),
       Gt(d, 30) /\ Le(d, 60),
       Gt(d, 60) /\ Le(d, 90),
       Gt(d, 90) /\ Le(d, 120),
       Gt(d, 120) /\ Le(d, 150),
       Gt(d, 150) /\ Le(d, 180),
       Gt(d, 180) /\ Le(d, 210),
       Gt(d, 210) >>

\* A variant whose A2 range ends before 30.
conditions_abiertas(d) ==
    << Eq(d, 0),
       Gt(d, 0) /\ Le(d, 29),
       Gt(d, 30) /\ Le(d, 60),
       Gt(d, 60) /\ Le(d, 90),
       Gt(d, 90) /\ Le(d, 120),
       Gt(d, 120) /\ Le(d, 150),
       Gt(d, 150) /\ Le(d, 180),
       Gt(d, 180) /\ Le(d, 210),
       Gt(d, 210) >>

\* comportamiento.py lines 165-175
conditions(d) ==
    << Eq(d, 0),
       Gt(d, 0) /\ Le(d, 30),
       Gt(d, 30) /\ Le(d, 60),
       Gt(d, 60) /\ Le(d, 90),
       Gt(d, 90) /\ Le(d, 120),
       Gt(d, 120) /\ Le(d, 150),
       Gt(d, 150) /\ Le(d, 180),
       Gt(d, 180) /\ Le(d, 210),
       Gt(d, 210) >>

\* np.select(condlist, choicelist, default): the choice of the first
\* condition that holds, the default when none does.
np_select(condlist, choicelist, default) ==
    LET hit == {i \in 1..Len(condlist) : condlist[i]}
    IN IF hit = {} THEN default
       ELSE choicelist[CHOOSE i \in hit : \A j \in hit : i <= j]

\* crear_columna_mora_ac on one row: 'diasatras' is made numeric, 'mora' set.
crear_columna_mora_ac(fila) ==
    LET d == to_numeric(fila.diasatras)
    IN [fila EXCEPT !.diasatras = d,
                    !.mora = np_select(conditions_ac(d), choices, NULL)]

\* crear_columna_mora on one row: 'diasatras' is made numeric, 'Mora' set.
crear_columna_mora(fila) ==
    LET d == to_numeric(fila.diasatras)
    IN [fila EXCEPT !.diasatras = d,
                    !.Mora = np_select(conditions(d), choices, NULL)]

(***************************************************************************)
(* Tables are sequences of rows (records), in row order.  Strings compare   *)
(* as Python compares them, character by character.                         *)
(***************************************************************************)
CharOrder == <<" ", "-", ".">> \o Digits \o <<"A", "N", "_", "a">>
CharRank(c) == CHOOSE i \in 1..Len(CharOrder) : CharOrder[i] = c

\* a < b for strings
RECURSIVE MenorCadena(_, _)
MenorCadena(a, b) ==
    IF b = <<>> THEN FALSE
    ELSE IF a = <<>> THEN TRUE
    ELSE IF Head(a) = Head(b) THEN MenorCadena(Tail(a), Tail(b))
    ELSE CharRank(Head(a)) < CharRank(Head(b))

\* The rows of df at the positions I, in row order (a boolean mask).
RECURSIVE Filtrar(_, _)
Filtrar(df, I) ==
    IF I = {} THEN <<>>
    ELSE LET m == CHOOSE i \in I : \A j \in I : i <= j
         IN <<df[m]>> \o Filtrar(df, I \ {m})

RECURSIVE SumaSeq(_)
SumaSeq(xs) == IF xs = <<>> THEN 0 ELSE Head(xs) + SumaSeq(Tail(xs))

\* Dates are the integers yyyymmdd; NaT is the missing date.
NaT == 0
Fecha(a, m, d) == a * 10000 + m * 100 + d
Anio(f) == f \div 10000
Mes(f) == (f \div 100) % 100
Dia(f) == f % 100

\* The dates of the monthly cuts of the source files.
Cortes == <<Fecha(2024, 1, 31), Fecha(2024, 2, 29)>>

\* (cedula_numero, corte) group keys in the order groupby sorts them
MenorGrupo(g, h) ==
    \/ MenorCadena(g[1], h[1])
    \/ g[1] = h[1] /\ g[2] < h[2]

RECURSIVE OrdenarGrupos(_)
OrdenarGrupos(S) ==
    IF S = {} THEN <<>>
    ELSE LET m == CHOOSE g \in S : \A h \in S \ {g} : MenorGrupo(g, h)
         IN <<m>> \o OrdenarGrupos(S \ {m})

\* groupby(['cedula_numero', 'corte']): the group keys of df, sorted; rows
\* with a null key are in no group (dropna).
GruposDe(df) ==
    {<<df[i].cedula_numero, df[i].corte>> : i \in {j \in 1..Len(df) : df[j].corte # NaT}}

EnGrupo(fila, g) == fila.cedula_numero = g[1] /\ fila.corte = g[2]

\* GroupBy 'first' of a date column: the first value of the group that is not
\* null (NaT when the group has none)
RECURSIVE first(_)
first(xs) ==
    IF xs = <<>> THEN NaT
    ELSE IF Head(xs) # NaT THEN Head(xs) ELSE first(Tail(xs))

\* A variant that keeps the first value instead of adding.
sum_primero(xs) == IF xs = <<>> THEN 0 ELSE Head(xs)

\* .sum() of a numeric column
sum(xs) == SumaSeq(xs)

Columna(df, col) == [i \in 1..Len(df) |-> df[i][col]]

(***************************************************************************)
(* analisis_cartera.py: manejar_duplicados_ac.  A portfolio row has the key *)
(* columns, a numeric column (saldofac) and a non-numeric one (fechafac).   *)
(***************************************************************************)
\* lines 66-67: the groups with more than one row
duplicados_info(df) ==
    {g \in GruposDe(df) : Cardinality({i \in 1..Len(df) : EnGrupo(df[i], g)}) > 1}

\* lines 80-91: the left merge with the indicator marks the rows of those
\* groups 'both' and the others 'left_only', keeping the row order
EsDuplicado(df, fila) == \E g \in duplicados_info(df) : EnGrupo(fila, g)

\* A variant that reads the indicator the wrong way round.
df_unicos_invertido(df) == Filtrar(df, {i \in 1..Len(df) : EsDuplicado(df, df[i])})

df_unicos(df) == Filtrar(df, {i \in 1..Len(df) : ~EsDuplicado(df, df[i])})
df_duplicados(df) == Filtrar(df, {i \in 1..Len(df) : EsDuplicado(df, df[i])})

\* lines 100-113: one row per group: numeric columns summed, the others 'first'
AgregarGrupo(dups, g) ==
    LET filas == Filtrar(dups, {i \in 1..Len(dups) : EnGrupo(dups[i], g)})
    IN [cedula_numero |-> g[1], corte |-> g[2],
        saldofac |-> sum(Columna(filas, "saldofac")),
        fechafac |-> first(Columna(filas, "fechafac"))]

df_duplicados_agrupados(df) ==
    LET grupos == OrdenarGrupos(duplicados_info(df))
    IN [k \in 1..Len(grupos) |-> AgregarGrupo(df_duplicados(df), grupos[k])]

\* lines 72-74 and 121: unchanged without duplicates, otherwise the unique
\* rows followed by the aggregated groups
manejar_duplicados_ac(df) ==
    IF duplicados_info(df) = {} THEN df
    ELSE df_unicos(df) \o df_duplicados_agrupados(df)

(***************************************************************************)
(* pandas merge, on rows that are records.  A missing value is NaT in a     *)
(* date column, NA in a numeric column and NULL in a text column.  No two   *)
(* tables of the model share a column besides the join columns, so the      *)
(* suffixes of the merges never apply.                                      *)
(***************************************************************************)
NA == -1

NuloDe(col) ==
    IF col \in {"corte", "fechafac", "fechafac_ajustada"} THEN NaT
    ELSE IF col \in {"calificacion"} THEN NULL
    ELSE NA

Nulos(cols) == [c \in cols |-> NuloDe(c)]

\* df[cols]
Seleccionar(df, cols) == [i \in 1..Len(df) |-> [c \in cols |-> df[i][c]]]

\* the values of a row in the join columns
ClaveDe(fila, on) == [c \in on |-> fila[c]]

FilasCon(df, on, k) == Filtrar(df, {i \in 1..Len(df) : ClaveDe(df[i], on) = k})

\* one left row with each of the right rows that match it, in their order
CruzarFila(l, rs) == [j \in 1..Len(rs) |-> l @@ rs[j]]

RECURSIVE Cruzar(_, _)
Cruzar(ls, rs) ==
    IF ls = <<>> THEN <<>> ELSE CruzarFila(Head(ls), rs) \o Cruzar(Tail(ls), rs)

\* merge(how='left'): the left rows in their order, each with every right row
\* of its key, or with nulls when the right table has none
RECURSIVE merge_left(_, _, _, _)
merge_left(left, right, on, colsR) ==
    IF left = <<>> THEN <<>>
    ELSE LET l == Head(left)
             rs == FilasCon(right, on, ClaveDe(l, on))
         IN (IF rs = <<>> THEN <<l @@ Nulos(colsR \ on)>> ELSE CruzarFila(l, rs))
            \o merge_left(Tail(left), right, on, colsR)

\* join keys in the order the outer merge sorts them: by cedula_numero, then
\* by corte with the missing date last
MenorClave(g, h) ==
    \/ MenorCadena(g.cedula_numero, h.cedula_numero)
    \/ /\ g.cedula_numero = h.cedula_numero
       /\ "corte" \in DOMAIN g
       /\ g.corte # NaT
       /\ (h.corte = NaT \/ g.corte < h.corte)

RECURSIVE OrdenarClaves(_)
OrdenarClaves(S) ==
    IF S = {} THEN <<>>
    ELSE LET m == CHOOSE g \in S : \A h \in S \ {g} : MenorClave(g, h)
         IN <<m>> \o OrdenarClaves(S \ {m})

RECURSIVE Concatenar(_)
Concatenar(tablas_) ==
    IF tablas_ = <<>> THEN <<>> ELSE Head(tablas_) \o Concatenar(Tail(tablas_))

\* merge(how='outer'): the union of the keys of both tables, sorted; the rows
\* of a key are the left rows with the right rows when both tables have it,
\* and the rows of the one table with nulls for the other otherwise
merge_outer(left, right, on, colsL, colsR) ==
    LET claves == OrdenarClaves({ClaveDe(left[i], on) : i \in 1..Len(left)}
                                \cup {ClaveDe(right[i], on) : i \in 1..Len(right)})
        De(k) == LET ls == FilasCon(left, on, k)
                     rs == FilasCon(right, on, k)
                 IN IF rs = <<>>
                    THEN [i \in 1..Len(ls) |-> ls[i] @@ Nulos(colsR \ on)]
                    ELSE IF ls = <<>>
                    THEN [j \in 1..Len(rs) |-> rs[j] @@ Nulos(colsL \ on)]
                    ELSE Cruzar(ls, rs)
    IN Concatenar([k \in 1..Len(claves) |-> De(claves[k])])

\* A variant that removes nothing.
drop_duplicates_ninguno(df, subset) == df

\* drop_duplicates(subset): the first row of each value of the subset
drop_duplicates(df, subset) ==
    Filtrar(df, {i \in 1..Len(df) :
                    \A j \in 1..(i - 1) : ClaveDe(df[j], subset) # ClaveDe(df[i], subset)})

(***************************************************************************)
(* Date arithmetic of cosechas.py (dateutil.relativedelta, pd.Timedelta).   *)
(***************************************************************************)
EsBisiesto(a) == (a % 4 = 0 /\ a % 100 # 0) \/ a % 400 = 0

DiasDelMes(a, m) ==
    IF m = 2 THEN (IF EsBisiesto(a) THEN 29 ELSE 28)
    ELSE IF m \in {4, 6, 9, 11} THEN 30
    ELSE 31

\* x + relativedelta(months=n): the month moves and the day is cut to the
\* length of the new month
relativedelta_months(f, n) ==
    LET t == Anio(f) * 12 + (Mes(f) - 1) + n
        a == t \div 12
        m == (t % 12) + 1
        d == IF Dia(f) > DiasDelMes(a, m) THEN DiasDelMes(a, m) ELSE Dia(f)
    IN Fecha(a, m, d)

\* x - pd.Timedelta(days=1)
MenosUnDia(f) ==
    IF Dia(f) > 1 THEN f - 1
    ELSE LET p == relativedelta_months(f, -1)
         IN Fecha(Anio(p), Mes(p), DiasDelMes(Anio(p), Mes(p)))

(***************************************************************************)
(* The source transformers on tables.  A raw portfolio row has the two raw  *)
(* identifier cells, 'corte', 'saldofac' and 'fechafac'; a raw collections  *)
(* row the two raw identifier cells, 'corte' and 'capitalrec'.  The cleaned *)
(* 'cedula' and 'numero' columns stay in the tables of the code and are not *)
(* read again; the rows of the model drop them.                             *)
(***************************************************************************)
\* base.py lines 130-133: the keys that are the separator alone
ContarLlavesVacias(df, separador) ==
    Cardinality({i \in 1..Len(df) : df[i].cedula_numero = separador})

procesar_analisis_cartera(df) ==
    [i \in 1..Len(df) |->
        [cedula_numero |-> LlaveAC(df[i].cedula, df[i].numero),
         corte |-> df[i].corte,
         saldofac |-> df[i].saldofac,
         fechafac |-> df[i].fechafac]]

\* recaudos.py: the key (step 4), before the filter and the aggregation
recaudos_con_llave(df) ==
    [i \in 1..Len(df) |->
        [cedula_numero |-> LlaveRecaudos(df[i].cedula, df[i].numero),
         corte |-> df[i].corte,
         capitalrec |-> df[i].capitalrec]]

\* recaudos.py: the rows with capitalrec > 0 (step 5), summed by
\* (cedula_numero, corte) (step 6)
procesar_recaudos(df) ==
    LET df_proc == recaudos_con_llave(df)
        positivos == Filtrar(df_proc, {i \in 1..Len(df_proc) : df_proc[i].capitalrec > 0})
        grupos == OrdenarGrupos(GruposDe(positivos))
    IN [k \in 1..Len(grupos) |->
           [cedula_numero |-> grupos[k][1],
            corte |-> grupos[k][2],
            capitalrec |-> sum(Columna(Filtrar(positivos,
                               {i \in 1..Len(positivos) : EnGrupo(positivos[i], grupos[k])}),
                               "capitalrec"))]]

(***************************************************************************)
(* cosechas.py: crear_cosechas, called without Edades and without R05 (both *)
(* joins are skipped when the source is missing, lines 70-85).              *)
(***************************************************************************)
ColumnasBase == {"cedula_numero", "corte", "valor"}
ColumnasAC == {"cedula_numero", "corte", "saldofac", "fechafac"}
ColumnasRecaudos == {"cedula_numero", "corte", "CAPITALREC"}

\* A variant that keeps only the rows of the base (a left join).
unir_con_ac_izquierda(cosechas, df_ac_) ==
    merge_left(cosechas, Seleccionar(df_ac_, ColumnasAC),
               {"cedula_numero", "corte"}, ColumnasAC)

unir_con_ac(cosechas, df_ac_) ==
    merge_outer(cosechas, Seleccionar(df_ac_, ColumnasAC),
                {"cedula_numero", "corte"}, ColumnasBase, ColumnasAC)

unir_con_recaudos(cosechas, df_recaudos) ==
    LET df_recaudos_filtrado ==
            [i \in 1..Len(df_recaudos) |->
                [cedula_numero |-> df_recaudos[i].cedula_numero,
                 corte |-> df_recaudos[i].corte,
                 CAPITALREC |-> df_recaudos[i].capitalrec]]
    IN merge_outer(cosechas, df_recaudos_filtrado, {"cedula_numero", "corte"},
                   ColumnasBase \cup ColumnasAC, ColumnasRecaudos)

\* the end of the month that follows the month of 'corte'
FinDelMesSiguiente(x) ==
    LET y == relativedelta_months(x, 2)
    IN MenosUnDia(Fecha(Anio(y), Mes(y), 1))

\* a value of a date column that is not null and that pd.to_datetime cannot
\* read as a date (a stray text of the spreadsheet)
NoFecha == 0 - 2

\* pd.to_datetime(..., errors='coerce'): what is not a date becomes NaT
to_datetime(v) == IF v = NoFecha THEN NaT ELSE v

corregir_fechafac(cosechas) ==
    IF \A i \in 1..Len(cosechas) : cosechas[i].fechafac # NaT THEN cosechas
    ELSE [i \in 1..Len(cosechas) |->
            IF to_datetime(cosechas[i].fechafac) # NaT THEN cosechas[i]
            ELSE [cosechas[i] EXCEPT !.fechafac =
                     IF cosechas[i].corte # NaT
                     THEN FinDelMesSiguiente(cosechas[i].corte) ELSE NaT]]

crear_fechafac_ajustada(cosechas) ==
    [i \in 1..Len(cosechas) |->
        [cosechas[i] EXCEPT !.fechafac = to_datetime(@)] @@
        [fechafac_ajustada |->
            IF to_datetime(cosechas[i].fechafac) # NaT
            THEN relativedelta_months(to_datetime(cosechas[i].fechafac), -1) ELSE NaT]]

\* str.match(r'^NA-\d+')
mask_na(cedula_numero) ==
    /\ Len(cedula_numero) >= 4
    /\ SubSeq(cedula_numero, 1, 3) = <<"N", "A", "-">>
    /\ cedula_numero[4] \in DigitChars

\* filtrar_registros_na: the rows kept and the rows removed
filtrar_registros_na(cosechas) ==
    [cosechas |-> Filtrar(cosechas, {i \in 1..Len(cosechas) :
                                        ~mask_na(cosechas[i].cedula_numero)}),
     eliminados |-> Filtrar(cosechas, {i \in 1..Len(cosechas) :
                                          mask_na(cosechas[i].cedula_numero)})]

crear_cosechas(df_fnz007, df_ac_, df_recaudos) ==
    LET paso1 == Seleccionar(df_fnz007, ColumnasBase)
        paso2 == unir_con_ac(paso1, df_ac_)
        paso5 == IF Len(df_recaudos) > 0 THEN unir_con_recaudos(paso2, df_recaudos)
                 ELSE paso2
        paso6 == corregir_fechafac(paso5)
        paso7 == crear_fechafac_ajustada(paso6)
        paso8 == filtrar_registros_na(paso7)
        columnas == IF Len(df_recaudos) > 0
                    THEN ColumnasBase \cup ColumnasAC \cup ColumnasRecaudos
                         \cup {"fechafac_ajustada"}
                    ELSE ColumnasBase \cup ColumnasAC \cup {"fechafac_ajustada"}
    IN [Cosechas |-> drop_duplicates(paso8.cosechas, columnas),
        eliminados |-> paso8.eliminados]

(***************************************************************************)
(* crm.py and comportamiento.py: the left joins of the builders.            *)
(***************************************************************************)
\* sort_values('corte'): ascending, the rows without date last
RECURSIVE sort_values_corte(_)
sort_values_corte(df) ==
    IF df = <<>> THEN <<>>
    ELSE LET Antes(i, j) ==
                 \/ df[i].corte # NaT /\ (df[j].corte = NaT \/ df[i].corte < df[j].corte)
                 \/ df[i].corte = df[j].corte /\ i < j
             m == CHOOSE i \in 1..Len(df) : \A j \in 1..Len(df) : j # i => Antes(i, j)
         IN <<df[m]>> \o sort_values_corte(Filtrar(df, (1..Len(df)) \ {m}))

\* groupby('cedula_numero').first(): the keys sorted, and the first 'saldofac'
\* of each that is not null
RECURSIVE OrdenarCadenas(_)
OrdenarCadenas(S) ==
    IF S = {} THEN <<>>
    ELSE LET m == CHOOSE g \in S : \A h \in S \ {g} : MenorCadena(g, h)
         IN <<m>> \o OrdenarCadenas(S \ {m})

RECURSIVE first_numero(_)
first_numero(xs) ==
    IF xs = <<>> THEN NA
    ELSE IF Head(xs) # NA THEN Head(xs) ELSE first_numero(Tail(xs))

\* crm.py lines 127-135: the first portfolio record of each cedula_numero
df_ac_primer(df_ac_) ==
    LET ordenado == sort_values_corte(Seleccionar(df_ac_, {"cedula_numero", "corte", "saldofac"}))
        llaves == OrdenarCadenas({ordenado[i].cedula_numero : i \in 1..Len(ordenado)})
    IN [k \in 1..Len(llaves) |->
           [cedula_numero |-> llaves[k],
            saldofac |-> first_numero(Columna(
                            FilasCon(ordenado, {"cedula_numero"}, [cedula_numero |-> llaves[k]]),
                            "saldofac"))]]

unir_con_ac_primer_registro(crm, df_ac_) ==
    merge_left(crm, df_ac_primer(df_ac_), {"cedula_numero"}, {"cedula_numero", "saldofac"})

unir_valor_desembolsado(comportamiento_h, df_fnz007) ==
    LET df_valor == drop_duplicates(Seleccionar(df_fnz007, {"cedula_numero", "valor"}),
                                    {"cedula_numero"})
    IN merge_left(comportamiento_h, df_valor, {"cedula_numero"}, {"cedula_numero", "valor"})

unir_categorias(comportamiento_h, df_categorias) ==
    LET df_cat == drop_duplicates(Seleccionar(df_categorias, {"cedula_numero", "calificacion"}),
                                  {"cedula_numero"})
    IN merge_left(comportamiento_h, df_cat, {"cedula_numero"},
                  {"cedula_numero", "calificacion"})

(***************************************************************************)
(* Normalisation of one cell, and of the cleaned cell again (the portfolio  *)
(* and collections transformers clean the identifier columns and then       *)
(* crear_llave_cedula_numero cleans them a second time).                    *)
(***************************************************************************)
IdleNorm ==
    raw = RawNull /\ out1 = <<>> /\ out2 = <<>> /\ npc = "idle"
IdleKey == ksrc = <<>> /\ kraw = <<>> /\ kkey = <<>> /\ kpc = "idle"
IdleMora == dfMora = <<>> /\ mpc = "idle"
IdleDup == df_ac = <<>> /\ df_final = <<>> /\ dpc = "idle"
IdleJoin == caso = "" /\ izq = <<>> /\ der = <<>> /\ res = <<>> /\ jpc = "idle"
IdleCos ==
    /\ crudos = <<>> /\ tablas = <<>> /\ llaves_vacias = <<>>
    /\ Cosechas = <<>> /\ eliminados = <<>> /\ cpc = "idle"
IdleGap ==
    pivote = <<>> /\ hay_calificacion = FALSE /\ ComportamientoH = <<>> /\ hpc = "idle"
SinSalida == 0 - 1
SinResumen ==
    [escrito |-> FALSE, exitoso |-> FALSE, error_critico |-> <<>>,
     errores |-> <<>>, advertencias |-> <<>>]
IdleRun ==
    /\ cargas = <<>> /\ disponibles = {} /\ pasos = <<>> /\ advertencias = <<>>
    /\ resumen = SinResumen /\ salida = SinSalida /\ rpc = "idle"
IdleLlave ==
    fuente_llave = "" /\ tabla_llave = <<>> /\ res_llave = <<>> /\ lpc = "idle"
IdleOrd ==
    fuente_ord = "" /\ tabla_ord = <<>> /\ bitacora = <<>> /\ opc = "idle"
IdleDrift ==
    /\ fuente_drift = "" /\ cosechas_drift = <<>> /\ tabla_drift = <<>>
    /\ res_drift = <<>> /\ xpc = "idle"
IdlePiv == Comportamiento = <<>> /\ df_pivotado = <<>> /\ ppc = "idle"
IdleObj == entradas = <<>> /\ objetos = <<>> /\ construidos = {}
IdleMas == IdleGap /\ IdleRun /\ IdleLlave /\ IdleOrd /\ IdleDrift /\ IdlePiv /\ IdleObj
IdleBase == IdleNorm /\ IdleKey /\ IdleMora /\ IdleDup /\ IdleJoin /\ IdleCos

SoloNorm == IdleKey /\ IdleMora /\ IdleDup /\ IdleJoin /\ IdleCos /\ IdleMas
SoloKey == IdleNorm /\ IdleMora /\ IdleDup /\ IdleJoin /\ IdleCos /\ IdleMas
SoloMora == IdleNorm /\ IdleKey /\ IdleDup /\ IdleJoin /\ IdleCos /\ IdleMas
SoloDup == IdleNorm /\ IdleKey /\ IdleMora /\ IdleJoin /\ IdleCos /\ IdleMas
SoloJoin == IdleNorm /\ IdleKey /\ IdleMora /\ IdleDup /\ IdleCos /\ IdleMas
SoloCos == IdleNorm /\ IdleKey /\ IdleMora /\ IdleDup /\ IdleJoin /\ IdleMas
SoloGap == IdleBase /\ IdleRun /\ IdleLlave /\ IdleOrd /\ IdleDrift /\ IdlePiv /\ IdleObj
SoloRun == IdleBase /\ IdleGap /\ IdleLlave /\ IdleOrd /\ IdleDrift /\ IdlePiv /\ IdleObj
SoloLlave == IdleBase /\ IdleGap /\ IdleRun /\ IdleOrd /\ IdleDrift /\ IdlePiv /\ IdleObj
SoloOrd == IdleBase /\ IdleGap /\ IdleRun /\ IdleLlave /\ IdleDrift /\ IdlePiv /\ IdleObj
SoloDrift == IdleBase /\ IdleGap /\ IdleRun /\ IdleLlave /\ IdleOrd /\ IdlePiv /\ IdleObj
SoloPiv == IdleBase /\ IdleGap /\ IdleRun /\ IdleLlave /\ IdleOrd /\ IdleDrift /\ IdleObj
SoloObj == IdleBase /\ IdleGap /\ IdleRun /\ IdleLlave /\ IdleOrd /\ IdleDrift /\ IdlePiv

\* The identifiers the sources hold: a one-digit and a 16-digit number, and a
\* missing one (<<>>).
Ids == {<<"5">>, IncDigits(Pow2_53), <<>>}

Blanks(n) == [i \in 1..n |-> " "]

\* The raw cells a source may receive for one identifier: an integer, a float
\* with .0 (when a float holds it), and the digits as a string, with ".0", or
\* padded with blanks; a missing identifier is a null or a blank string.
Reps(id) ==
    IF id = <<>>
    THEN {RawNull} \cup {RawStr(Blanks(n)) : n \in 0..MaxPad}
    ELSE {RawInt(FALSE, id)}
         \cup (IF RoundToFloat(Num(FALSE, id, <<>>)).ip = id
               THEN {RawFloat(FALSE, id, <<>>), RawStr(id \o <<".", "0">>)}
               ELSE {})
         \cup {RawStr(Blanks(n) \o id \o Blanks(n)) : n \in 0..MaxPad}

InitKey ==
    /\ \E idC \in Ids, idN \in Ids :
          \E c1 \in Reps(idC), c2 \in Reps(idC), n1 \in Reps(idN), n2 \in Reps(idN) :
              kraw = <<[cedula |-> c1, numero |-> n1], [cedula |-> c2, numero |-> n2]>>
    /\ ksrc \in Fuentes \X Fuentes
    /\ kkey = <<>>
    /\ kpc = "in"
    /\ SoloKey

\* Each of the two transformers builds the key of its row.
CrearLlaves ==
    /\ kpc = "in"
    /\ kkey' = <<LlaveDe(ksrc[1], kraw[1].cedula, kraw[1].numero),
                 LlaveDe(ksrc[2], kraw[2].cedula, kraw[2].numero)>>
    /\ kpc' = "done"
    /\ UNCHANGED <<ksrc, kraw, sinKey>>

NextKey == CrearLlaves

SpecKey == InitKey /\ [][NextKey]_vars

\* C3: for every (customer id, loan number) pair and every two source
\* transformers, the keys built for the pair are the same string, whatever raw
\* representation each source received.
C3_MismaLlave == kpc = "done" => kkey[1] = kkey[2]

InitNorm ==
    /\ raw \in RawValues
    /\ out1 = <<>>
    /\ out2 = <<>>
    /\ npc = "in"
    /\ SoloNorm

LimpiarColumna ==
    /\ npc = "in"
    /\ out1' = limpiar_valor(raw)
    /\ npc' = "once"
    /\ UNCHANGED <<raw, out2, sinNorm>>

LimpiarDeNuevo ==
    /\ npc = "once"
    /\ out2' = limpiar_valor(RawStr(out1))
    /\ npc' = "twice"
    /\ UNCHANGED <<raw, out1, sinNorm>>

NextNorm == LimpiarColumna \/ LimpiarDeNuevo

SpecNorm == InitNorm /\ [][NextNorm]_vars

\* C1: identifier normalisation is idempotent: cleaning a cleaned cell again
\* returns the same string, for every raw cell (null, integer, float, string).
C1_Idempotente == npc = "twice" => out2 = out1

EsDecimalDe(str, x) ==
    LET body == IF str # <<>> /\ Head(str) = "-" THEN Tail(str) ELSE str
    IN /\ (str # <<>> /\ Head(str) = "-") = (x.neg /\ (x.ip # <<"0">> \/ x.fp # <<>>))
       /\ IF x.fp = <<>> THEN body = x.ip
          ELSE /\ Len(body) = Len(x.ip) + 1 + Len(x.fp)
               /\ SubSeq(body, 1, Len(x.ip)) = x.ip
               /\ body[Len(x.ip) + 1] = "."
               /\ SubSeq(body, Len(x.ip) + 2, Len(body)) = x.fp

CeldasDias == {Numero(n) : n \in -MinDias..MaxDias} \cup {NaN, NoNumerico}

InitMora ==
    /\ dfMora \in [1..2 -> [diasatras : CeldasDias, mora : {"-"}, Mora : {"-"}]]
    /\ mpc = "in"
    /\ SoloMora

CrearColumnaMoraAC ==
    /\ mpc = "in"
    /\ dfMora' = [i \in 1..2 |-> crear_columna_mora_ac(dfMora[i])]
    /\ mpc' = "ac"
    /\ UNCHANGED sinMora

CrearColumnaMora ==
    /\ mpc = "ac"
    /\ dfMora' = [i \in 1..2 |-> crear_columna_mora(dfMora[i])]
    /\ mpc' = "comportamiento"
    /\ UNCHANGED sinMora

NextMora == CrearColumnaMoraAC \/ CrearColumnaMora

SpecMora == InitMora /\ [][NextMora]_vars

\* The bucket the rule of the specification gives to d days past due.
Regla(d) ==
    IF d.t # "num" \/ d.v < 0 THEN NULL
    ELSE IF d.v = 0 THEN "A1"
    ELSE IF d.v <= 30 THEN "A2"
    ELSE IF d.v <= 60 THEN "B1"
    ELSE IF d.v <= 90 THEN "B2"
    ELSE IF d.v <= 120 THEN "C1"
    ELSE IF d.v <= 150 THEN "C2"
    ELSE IF d.v <= 180 THEN "D1"
    ELSE IF d.v <= 210 THEN "D2"
    ELSE "EE"

\* C5: every row gets the bucket of the rule (A1 for 0, A2 up to 30, ... EE
\* above 210, null for a negative or non-numeric value), and the portfolio
\* transformer and the behaviour builder give the same bucket.
C5_Mora ==
    \A i \in 1..2 :
        /\ mpc \in {"ac", "comportamiento"} => dfMora[i].mora = Regla(dfMora[i].diasatras)
        /\ mpc = "comportamiento" =>
              /\ dfMora[i].Mora = Regla(dfMora[i].diasatras)
              /\ dfMora[i].Mora = dfMora[i].mora

\* Both functions have run on a row at a bucket's upper edge and on a row
\* that gets no bucket.
C5_Testigo ==
    /\ mpc = "comportamiento"
    /\ dfMora[1].diasatras = Numero(30) /\ dfMora[1].Mora = "A2"
    /\ dfMora[2].diasatras = NaN /\ dfMora[2].Mora = NULL

Severidad(b) == CHOOSE i \in 1..Len(choices) : choices[i] = b

\* C6: the bucket function is total and monotone: a row satisfies at most one
\* of the nine conditions, its bucket is one of the nine labels or null, and
\* of two rows with 0 <= d1 <= d2 the second is at least as severe.
C6_TotalMonotona ==
    mpc \in {"ac", "comportamiento"} =>
        /\ \A i \in 1..2 :
              LET d == dfMora[i].diasatras
                  hit == {k \in 1..9 : conditions_ac(d)[k]}
              IN /\ Cardinality(hit) <= 1
                 /\ d.t = "num" /\ d.v >= 0 => Cardinality(hit) = 1
                 /\ dfMora[i].mora \in {choices[k] : k \in 1..9} \cup {NULL}
                 /\ d.t = "num" /\ d.v >= 0 => dfMora[i].mora # NULL
        /\ \A i, j \in 1..2 :
              LET d1 == dfMora[i].diasatras
                  d2 == dfMora[j].diasatras
              IN d1.t = "num" /\ d2.t = "num" /\ 0 <= d1.v /\ d1.v <= d2.v =>
                    Severidad(dfMora[i].mora) <= Severidad(dfMora[j].mora)

\* Two rows on either side of a bucket edge have been classified, the later
\* one more severe.
C6_Testigo ==
    /\ mpc = "ac"
    /\ dfMora[1].diasatras = Numero(90) /\ dfMora[1].mora = "B2"
    /\ dfMora[2].diasatras = Numero(91) /\ dfMora[2].mora = "C1"

(***************************************************************************)
(* Duplicate collapsing of a portfolio table.                               *)
(***************************************************************************)
\* The (cedula_numero, corte) pairs of the rows: two dates of one loan, a
\* second loan, and a row without date.
ParesAC ==
    LET k1 == LlaveAC(RawInt(FALSE, <<"5">>), RawInt(FALSE, <<"1">>))
        k2 == LlaveAC(RawInt(FALSE, <<"5">>), RawStr(<<"1", "0", ".", "0">>))
    IN {<<k1, Cortes[1]>>, <<k1, Cortes[2]>>, <<k2, Cortes[1]>>, <<k1, NaT>>}

Saldos == {1, 2}
Fechas == {NaT, Fecha(2024, 1, 5), Fecha(2024, 2, 5)}

FilasAC ==
    {[cedula_numero |-> p[1], corte |-> p[2], saldofac |-> v, fechafac |-> f] :
        p \in ParesAC, v \in Saldos, f \in Fechas}

InitDup ==
    /\ df_ac \in SeqsUpTo(FilasAC, MaxFilas)
    /\ df_final = <<>>
    /\ dpc = "in"
    /\ SoloDup

ManejarDuplicados ==
    /\ dpc = "in"
    /\ df_final' = manejar_duplicados_ac(df_ac)
    /\ dpc' = "done"
    /\ UNCHANGED <<df_ac, sinDup>>

NextDup == ManejarDuplicados

SpecDup == InitDup /\ [][NextDup]_vars

MismoPar(f, g) == f.cedula_numero = g.cedula_numero /\ f.corte = g.corte

\* The rows of the input that share their (cedula_numero, corte) with row i
Grupo(i) == {j \in 1..Len(df_ac) : MismoPar(df_ac[j], df_ac[i])}

\* C7: a row that shares its (key, date) with no other row is in the output
\* with all its values, once; a table without duplicates is returned as it is.
C7_UnicosIntactos ==
    dpc = "done" =>
        /\ \A i \in 1..Len(df_ac) :
              Grupo(i) = {i} =>
                  /\ \E k \in 1..Len(df_final) : df_final[k] = df_ac[i]
                  /\ Cardinality({k \in 1..Len(df_final) :
                                    MismoPar(df_final[k], df_ac[i])}) = 1
        /\ (\A i \in 1..Len(df_ac) : Grupo(i) = {i}) => df_final = df_ac

\* A table with a duplicate group and a unique row has been collapsed.
C7_Testigo ==
    /\ dpc = "done"
    /\ Len(df_final) < Len(df_ac)
    /\ \E i \in 1..Len(df_ac) : Grupo(i) = {i} /\ df_ac[i].corte # NaT

\* C8: the sum of a numeric column over the output equals its sum over the
\* input.
C8_SumaConservada ==
    dpc = "done" =>
        SumaSeq(Columna(df_final, "saldofac")) = SumaSeq(Columna(df_ac, "saldofac"))

\* A duplicate group has been summed into one row.
C8_Testigo ==
    /\ dpc = "done"
    /\ \E i, j \in 1..Len(df_ac) :
          /\ i < j /\ j \in Grupo(i) /\ df_ac[i].corte # NaT
          /\ \E k \in 1..Len(df_final) :
                /\ MismoPar(df_final[k], df_ac[i])
                /\ df_final[k].saldofac >= df_ac[i].saldofac + df_ac[j].saldofac

\* C9: the aggregated row of a duplicate group takes the non-numeric column
\* from the group's first row in load order, also when that value is null and
\* a later row of the group has one.
C9_PrimeraFila ==
    dpc = "done" =>
        \A i \in 1..Len(df_ac) :
            (df_ac[i].corte # NaT /\ Grupo(i) # {i} /\ \A j \in Grupo(i) : i <= j) =>
                \A k \in 1..Len(df_final) :
                    MismoPar(df_final[k], df_ac[i]) =>
                        df_final[k].fechafac = df_ac[i].fechafac

(***************************************************************************)
(* The pipeline from the loaded portfolio and collections tables to         *)
(* Cosechas: the transformers (procesador.py, phase 2), then crear_cosechas *)
(* on the joined base table (phase 3.2).                                    *)
(***************************************************************************)
\* The raw identifier cells of a loan, and of a row that has neither
IdsCrudos ==
    {[cedula |-> RawInt(FALSE, <<"5">>), numero |-> RawInt(FALSE, <<"1">>)],
     [cedula |-> RawNull, numero |-> RawNull]}

FilasACCrudas ==
    {[cedula |-> id.cedula, numero |-> id.numero, corte |-> Cortes[c],
      saldofac |-> 1, fechafac |-> NaT] : id \in IdsCrudos, c \in 1..2}
    \cup {[cedula |-> RawInt(FALSE, <<"5">>), numero |-> RawInt(FALSE, <<"1">>),
           corte |-> Cortes[1], saldofac |-> 1, fechafac |-> Fecha(2024, 3, 31)]}

FilasRecaudosCrudas ==
    {[cedula |-> id.cedula, numero |-> id.numero, corte |-> Cortes[c],
      capitalrec |-> 3] : id \in IdsCrudos, c \in 1..2}
    \cup {[cedula |-> RawInt(FALSE, <<"5">>), numero |-> RawInt(FALSE, <<"1">>),
           corte |-> Cortes[1], capitalrec |-> 0]}

\* The joined base table: no row, or the row of a loan or of a synthetic key
BasesFNZ ==
    {<<>>} \cup
    {<<[cedula_numero |-> k, corte |-> Cortes[c], valor |-> 7]>> :
        k \in {<<"5", "-", "1">>, <<"N", "A", "-", "1">>}, c \in 1..2}

InitCos ==
    /\ crudos \in [ac : SeqsUpTo(FilasACCrudas, MaxFilasCos),
                   recaudos : SeqsUpTo(FilasRecaudosCrudas, MaxFilasCos),
                   fnz : BasesFNZ]
    /\ tablas = <<>>
    /\ llaves_vacias = <<>>
    /\ Cosechas = <<>>
    /\ eliminados = <<>>
    /\ cpc = "in"
    /\ SoloCos

\* procesador.py lines 155-156 and 189
ProcesarFuentes ==
    /\ cpc = "in"
    /\ tablas' = [ac |-> manejar_duplicados_ac(procesar_analisis_cartera(crudos.ac)),
                  recaudos |-> procesar_recaudos(crudos.recaudos),
                  fnz |-> crudos.fnz]
    /\ llaves_vacias' =
          [ac |-> ContarLlavesVacias(procesar_analisis_cartera(crudos.ac), <<"-">>),
           recaudos |-> ContarLlavesVacias(recaudos_con_llave(crudos.recaudos), <<"-">>)]
    /\ cpc' = "transformed"
    /\ UNCHANGED <<crudos, Cosechas, eliminados, sinCos>>

\* procesador.py line 232
CrearCosechas ==
    /\ cpc = "transformed"
    /\ LET r == crear_cosechas(tablas.fnz, tablas.ac, tablas.recaudos)
       IN Cosechas' = r.Cosechas /\ eliminados' = r.eliminados
    /\ cpc' = "done"
    /\ UNCHANGED <<crudos, tablas, llaves_vacias, sinCos>>

NextCos == ProcesarFuentes \/ CrearCosechas

SpecCos == InitCos /\ [][NextCos]_vars

SinIds(fila) == fila.cedula = RawNull /\ fila.numero = RawNull

\* C4: the key built from two empty identifiers is the separator alone, the
\* transformer that builds it counts it and warns, and no row of Cosechas with
\* that key has been matched by a join: it never carries the portfolio columns
\* of one row together with the collections column of another.
C4_LlaveVaciaNoUnida ==
    /\ cpc # "in" =>
          \A i \in 1..Len(crudos.ac) :
              SinIds(crudos.ac[i]) =>
                  /\ \E k \in 1..Len(tablas.ac) :
                        /\ tablas.ac[k].cedula_numero = <<"-">>
                        /\ tablas.ac[k].corte = crudos.ac[i].corte
                  /\ llaves_vacias.ac > 0
    /\ cpc = "done" =>
          \A k \in 1..Len(Cosechas) :
              (Cosechas[k].cedula_numero = <<"-">> /\ "CAPITALREC" \in DOMAIN Cosechas[k]) =>
                  ~(Cosechas[k].saldofac # NA /\ Cosechas[k].CAPITALREC # NA)

(***************************************************************************)
(* The left joins of the CRM and of the behaviour pivot.                    *)
(***************************************************************************)
LlavesJoin == {<<"5", "-", "1">>, <<"5", "-", "1", "0">>}

\* The left tables: CRM rows (from the base table) and pivot rows
FilasIzq(c) ==
    IF c = "crm" THEN {[cedula_numero |-> k, valor |-> 7] : k \in LlavesJoin}
    ELSE {[cedula_numero |-> k, Mora |-> "A1"] : k \in LlavesJoin}

\* The right tables: the portfolio, the base table, the reference ratings
FilasDer(c) ==
    IF c = "crm"
    THEN {[cedula_numero |-> k, corte |-> Cortes[n], saldofac |-> n, fechafac |-> NaT] :
             k \in LlavesJoin, n \in 1..2}
         \cup {[cedula_numero |-> <<"5", "-", "1">>, corte |-> NaT, saldofac |-> 1,
                fechafac |-> NaT]}
    ELSE IF c = "valor"
    THEN {[cedula_numero |-> k, corte |-> Cortes[1], valor |-> v] :
             k \in LlavesJoin, v \in {7, 8}}
    ELSE {[cedula_numero |-> k, calificacion |-> q] : k \in LlavesJoin, q \in {"DV", "PT"}}

InitJoin ==
    /\ caso \in {"crm", "valor", "categorias"}
    /\ izq \in SeqsUpTo(FilasIzq(caso), MaxFilas)
    /\ der \in SeqsUpTo(FilasDer(caso), MaxFilas)
    /\ res = <<>>
    /\ jpc = "in"
    /\ SoloJoin

UnirConAcPrimerRegistro ==
    /\ jpc = "in" /\ caso = "crm"
    /\ res' = unir_con_ac_primer_registro(izq, der)
    /\ jpc' = "done"
    /\ UNCHANGED <<caso, izq, der, sinJoin>>

UnirValorDesembolsado ==
    /\ jpc = "in" /\ caso = "valor"
    /\ res' = unir_valor_desembolsado(izq, der)
    /\ jpc' = "done"
    /\ UNCHANGED <<caso, izq, der, sinJoin>>

UnirCategorias ==
    /\ jpc = "in" /\ caso = "categorias"
    /\ res' = unir_categorias(izq, der)
    /\ jpc' = "done"
    /\ UNCHANGED <<caso, izq, der, sinJoin>>

NextJoin == UnirConAcPrimerRegistro \/ UnirValorDesembolsado \/ UnirCategorias

SpecJoin == InitJoin /\ [][NextJoin]_vars

\* C10: each of the three left joins against the right table reduced to one
\* row per cedula_numero returns exactly as many rows as the left table has,
\* the left rows in their order.
C10_MismasFilas ==
    jpc = "done" =>
        /\ Len(res) = Len(izq)
        /\ \A i \in 1..Len(izq) : ClaveDe(res[i], DOMAIN izq[i]) = izq[i]

\* A left row has been joined to a right table that held several rows of its
\* key.
C10_Testigo ==
    /\ jpc = "done"
    /\ Len(izq) >= 2
    /\ \E i \in 1..Len(izq) :
          Cardinality({j \in 1..Len(der) : der[j].cedula_numero = izq[i].cedula_numero}) >= 2
    /\ Len(res) = Len(izq)

(***************************************************************************)
(* cosechas.py: unir_con_ac alone, on a base table and a portfolio table    *)
(* that share one key.                                                      *)
(***************************************************************************)
\* K1 and K2 are in the base, K2 and K3 in the portfolio
LlavesBase == {<<"5", "-", "1">>, <<"5", "-", "1", "0">>}
LlavesPortafolio == {<<"5", "-", "1", "0">>, <<"7", "-", "1">>}

FilasBaseUnir ==
    {[cedula_numero |-> k, corte |-> c, valor |-> 7] :
        k \in LlavesBase, c \in {Cortes[1], Cortes[2], NaT}}

FilasACUnir ==
    {[cedula_numero |-> k, corte |-> c, saldofac |-> 1, fechafac |-> Fecha(2024, 2, 15)] :
        k \in LlavesPortafolio, c \in {Cortes[1], Cortes[2], NaT}}

InitUnirAC ==
    /\ crudos = <<>>
    /\ tablas \in [fnz : SeqsUpTo(FilasBaseUnir, MaxFilasCos),
                   ac : SeqsUpTo(FilasACUnir, MaxFilasCos)]
    /\ llaves_vacias = <<>>
    /\ Cosechas = <<>>
    /\ eliminados = <<>>
    /\ cpc = "in"
    /\ SoloCos

\* crear_cosechas, steps 1 and 2 (cosechas.py lines 55 and 66)
UnirConAC ==
    /\ cpc = "in"
    /\ Cosechas' = unir_con_ac(Seleccionar(tablas.fnz, ColumnasBase), tablas.ac)
    /\ cpc' = "unido"
    /\ UNCHANGED <<crudos, tablas, llaves_vacias, eliminados, sinCos>>

NextUnirAC == UnirConAC

SpecUnirAC == InitUnirAC /\ [][NextUnirAC]_vars

\* The (cedula_numero, corte) pairs of a table
ParesDe(df) == {<<df[i].cedula_numero, df[i].corte>> : i \in 1..Len(df)}

\* C11: the (key, date) pairs of the joined table are the union of the pairs
\* of the base and of the portfolio; a row of a pair the portfolio lacks has
\* null portfolio columns and the base columns of a base row of the pair, a
\* row of a pair the base lacks has null base columns and the portfolio
\* columns of a portfolio row of the pair.
C11_UnionDePares ==
    cpc = "unido" =>
        /\ ParesDe(Cosechas) = ParesDe(tablas.fnz) \cup ParesDe(tablas.ac)
        /\ \A k \in 1..Len(Cosechas) :
              LET f == Cosechas[k]
                  par == <<f.cedula_numero, f.corte>>
              IN /\ IF par \in ParesDe(tablas.ac)
                    THEN \E j \in 1..Len(tablas.ac) :
                            /\ <<tablas.ac[j].cedula_numero, tablas.ac[j].corte>> = par
                            /\ f.saldofac = tablas.ac[j].saldofac
                            /\ f.fechafac = tablas.ac[j].fechafac
                    ELSE f.saldofac = NA /\ f.fechafac = NaT
                 /\ IF par \in ParesDe(tablas.fnz)
                    THEN \E i \in 1..Len(tablas.fnz) :
                            /\ <<tablas.fnz[i].cedula_numero, tablas.fnz[i].corte>> = par
                            /\ f.valor = tablas.fnz[i].valor
                    ELSE f.valor = NA

\* A base with K1 and K2 has been joined with a portfolio with K2 and K3 of
\* the same date, and the result has the three keys.
C11_Testigo ==
    /\ cpc = "unido"
    /\ {tablas.fnz[i].cedula_numero : i \in 1..Len(tablas.fnz)} = LlavesBase
    /\ {tablas.ac[i].cedula_numero : i \in 1..Len(tablas.ac)} = LlavesPortafolio
    /\ \A i \in 1..Len(tablas.fnz) : tablas.fnz[i].corte = Cortes[1]
    /\ \A i \in 1..Len(tablas.ac) : tablas.ac[i].corte = Cortes[1]
    /\ Len(Cosechas) = 3
    /\ \E k \in 1..3 : Cosechas[k].valor # NA /\ Cosechas[k].saldofac # NA

(***************************************************************************)
(* comportamiento.py: procesar_columnas_mora.  A row of the pivoted table   *)
(* has the key, the cells of the Mora_<date> columns in the order of their  *)
(* sorted names (line 365), and the reference rating 'calificacion' that    *)
(* the left join with the ratings table gave it (null without a match).     *)
(***************************************************************************)
MaxCortes == 5     \* the Mora_<date> columns of the pivoted table

\* llenar_na_iniciales on one row: the cells before the first one that is not
\* null become '.'
llenar_na_iniciales(fila) ==
    LET no_na == {p \in 1..Len(fila.Mora) : fila.Mora[p] # NULL}
    IN IF no_na = {} THEN fila
       ELSE LET posicion == CHOOSE p \in no_na : \A q \in no_na : p <= q
            IN [fila EXCEPT !.Mora = [p \in 1..Len(fila.Mora) |->
                                         IF p < posicion THEN "." ELSE fila.Mora[p]]]

\* astype(str) of a cell: a missing value becomes the text 'nan'
astype_str(v) == IF v = NULL THEN "nan" ELSE v

\* reemplazar_na_con_calificacion on one row
reemplazar_na_con_calificacion(fila) ==
    LET calificacion == astype_str(fila.calificacion)
    IN [fila EXCEPT
           !.calificacion = calificacion,
           !.Mora = [p \in 1..Len(fila.Mora) |->
                        IF astype_str(fila.Mora[p]) \in {"nan", "None", ""}
                        THEN calificacion ELSE astype_str(fila.Mora[p])]]

\* convertir_puntos_a_na on one row: replace('.', np.nan)
convertir_puntos_a_na(fila) ==
    [fila EXCEPT !.Mora = [p \in 1..Len(fila.Mora) |->
                              IF fila.Mora[p] = "." THEN NULL ELSE fila.Mora[p]]]

procesar_columnas_mora(df, con_calificacion) ==
    IF \A i \in 1..Len(df) : Len(df[i].Mora) = 0 THEN df
    ELSE [i \in 1..Len(df) |->
            LET paso1 == llenar_na_iniciales(df[i])
                paso2 == IF con_calificacion THEN reemplazar_na_con_calificacion(paso1)
                         ELSE paso1
            IN convertir_puntos_a_na(paso2)]

\* The bucket cells and the ratings of the pivoted rows
CeldasMora == {NULL, "A2", "B1"}
Calificaciones == {NULL, "C1", "DV"}

FilasPivote(con_calificacion) ==
    [cedula_numero : {<<"5", "-", "1">>},
     Mora : [1..MaxCortes -> CeldasMora],
     calificacion : IF con_calificacion THEN Calificaciones ELSE {NULL}]

\* The second row of the table: a loan seen at every date, one seen at none,
\* and one seen at the last date only
OtrasFilas(con_calificacion) ==
    {[cedula_numero |-> <<"7", "-", "1">>,
      Mora |-> [p \in 1..MaxCortes |-> m[1]],
      calificacion |-> IF con_calificacion THEN "DV" ELSE NULL] : m \in {<<"A2">>, <<NULL>>}}
    \cup {[cedula_numero |-> <<"7", "-", "1">>,
           Mora |-> [p \in 1..MaxCortes |-> IF p = MaxCortes THEN "B1" ELSE NULL],
           calificacion |-> NULL]}

InitGap ==
    /\ hay_calificacion \in BOOLEAN
    /\ \E f \in FilasPivote(hay_calificacion), g \in OtrasFilas(hay_calificacion) :
          pivote = <<f, g>>
    /\ ComportamientoH = <<>>
    /\ hpc = "in"
    /\ SoloGap

\* crear_comportamiento, steps 6 to 8 (comportamiento.py line 68)
ProcesarColumnasMora ==
    /\ hpc = "in"
    /\ ComportamientoH' = procesar_columnas_mora(pivote, hay_calificacion)
    /\ hpc' = "done"
    /\ UNCHANGED <<pivote, hay_calificacion, sinGap>>

NextGap == ProcesarColumnasMora

SpecGap == InitGap /\ [][NextGap]_vars

\* the first observed bucket of a row that has one
PrimerObservado(fila) ==
    CHOOSE p \in 1..Len(fila.Mora) :
        fila.Mora[p] # NULL /\ \A q \in 1..(p - 1) : fila.Mora[q] = NULL

\* C12: in every row with an observed bucket, the cells before the first
\* observed bucket are null, the observed buckets are unchanged, the cells
\* that were null after the first observed bucket hold the row's reference
\* rating, and no cell holds the placeholder '.'.
C12_RellenoDeHuecos ==
    hpc = "done" =>
        \A i \in 1..Len(pivote) :
            (\E p \in 1..MaxCortes : pivote[i].Mora[p] # NULL) =>
                \A p \in 1..MaxCortes :
                    LET antes == pivote[i].Mora[p]
                        ahora == ComportamientoH[i].Mora[p]
                    IN /\ ahora # "."
                       /\ p < PrimerObservado(pivote[i]) => ahora = NULL
                       /\ antes # NULL => ahora = antes
                       /\ (p > PrimerObservado(pivote[i]) /\ antes = NULL) =>
                              ahora = pivote[i].calificacion

(***************************************************************************)
(* The same pipeline on portfolio rows whose customer id is missing and     *)
(* whose loan number is a number.                                           *)
(***************************************************************************)
FilasACSinCedula ==
    {[cedula |-> c, numero |-> RawInt(FALSE, n), corte |-> Cortes[1],
      saldofac |-> 1, fechafac |-> NaT] :
        c \in {RawNull, RawInt(FALSE, <<"5">>)}, n \in {<<"1">>, <<"1", "0">>}}

InitNA ==
    /\ crudos \in [ac : SeqsUpTo(FilasACSinCedula, MaxFilasCos),
                   recaudos : {<<>>},
                   fnz : BasesFNZ]
    /\ tablas = <<>>
    /\ llaves_vacias = <<>>
    /\ Cosechas = <<>>
    /\ eliminados = <<>>
    /\ cpc = "in"
    /\ SoloCos

SpecNA == InitNA /\ [][NextCos]_vars

\* C13: a row whose key was composed from a missing customer id and a
\* digits-only loan number is absent from the cohort crear_cosechas returns
\* and present in the excluded rows it returns.
C13_LlaveSinteticaExcluida ==
    cpc = "done" =>
        \A i \in 1..Len(crudos.ac) :
            crudos.ac[i].cedula = RawNull =>
                LET llave == LlaveAC(crudos.ac[i].cedula, crudos.ac[i].numero)
                IN /\ \A k \in 1..Len(Cosechas) : Cosechas[k].cedula_numero # llave
                   /\ \E k \in 1..Len(eliminados) : eliminados[k].cedula_numero = llave


(***************************************************************************)
(* The run: main() of procesadores/procesador.py.  A run is abstracted to   *)
(* what loading each dataset gives and to the steps main() calls, in the    *)
(* order it calls them; the tables themselves are modelled in the sections  *)
(* above.  cargar_dataset returns a table with rows ("datos"), an empty     *)
(* table when the files or sheets are missing ("vacio"), or raises          *)
(* ("error").                                                               *)
(***************************************************************************)
Criticos == {"FNZ007", "ANALISIS_CARTERA", "FNZ001"}
Secundarios == {"EDADES", "R05", "RECAUDOS"}
Datasets == Criticos \cup Secundarios \cup {"AUXILIARES"}
ResultadosDeCarga == {"datos", "vacio", "error"}

\* validar_dataframe: resultado["valido"], False for None or an empty table
validar_dataframe_permisivo(carga) == TRUE
validar_dataframe(carga) == carga = "datos"

InitRun ==
    /\ cargas \in [Datasets -> ResultadosDeCarga]
    /\ disponibles = {} /\ pasos = <<>> /\ advertencias = <<>>
    /\ resumen = SinResumen /\ salida = SinSalida /\ rpc = "FNZ007"
    /\ SoloRun

\* lines 59-81: load and validate one critical dataset; an exception of the
\* loader or an invalid table leaves the try block for the handler
CargarCritico(nombre, siguiente) ==
    /\ rpc = nombre
    /\ IF cargas[nombre] = "error"
       THEN /\ rpc' = "except"
            /\ resumen' = [resumen EXCEPT !.error_critico = <<nombre, "excepcion">>]
       ELSE IF ~validar_dataframe(cargas[nombre])
       THEN /\ rpc' = "except"
            /\ resumen' = [resumen EXCEPT !.error_critico = <<nombre, "no valido">>]
       ELSE /\ rpc' = siguiente
            /\ UNCHANGED resumen
    /\ UNCHANGED <<cargas, disponibles, pasos, advertencias, salida, sinRun>>

CargarFNZ007 == CargarCritico("FNZ007", "ANALISIS_CARTERA")
CargarAC == CargarCritico("ANALISIS_CARTERA", "FNZ001")
CargarFNZ001 == CargarCritico("FNZ001", "EDADES")

\* lines 88-125: a secondary dataset that is empty or fails to load becomes
\* None and leaves a warning
CargarSecundario(nombre, siguiente) ==
    /\ rpc = nombre
    /\ IF cargas[nombre] = "datos"
       THEN /\ disponibles' = disponibles \cup {nombre}
            /\ UNCHANGED advertencias
       ELSE /\ advertencias' = Append(advertencias, nombre)
            /\ UNCHANGED disponibles
    /\ rpc' = siguiente
    /\ UNCHANGED <<cargas, pasos, resumen, salida, sinRun>>

CargarEdades == CargarSecundario("EDADES", "R05")
CargarR05 == CargarSecundario("R05", "RECAUDOS")
CargarRecaudos == CargarSecundario("RECAUDOS", "AUXILIARES")

\* lines 127-137
CargarAuxiliares ==
    /\ rpc = "AUXILIARES"
    /\ IF cargas["AUXILIARES"] = "datos"
       THEN /\ disponibles' = disponibles \cup {"AUXILIARES"}
            /\ UNCHANGED advertencias
       ELSE /\ advertencias' = Append(advertencias, "AUXILIARES")
            /\ UNCHANGED disponibles
    /\ rpc' = "fase2"
    /\ UNCHANGED <<cargas, pasos, resumen, salida, sinRun>>

Si(cond, paso) == IF cond THEN <<paso>> ELSE <<>>

\* lines 151-201: the transformers, in call order
PasosFase2(disp) ==
    <<"filtrar_finansuenos_ac", "procesar_analisis_cartera",
      "manejar_duplicados_ac", "crear_columna_mora_ac", "procesar_fnz007">>
    \o Si("EDADES" \in disp, "procesar_edades")
    \o Si("R05" \in disp, "procesar_r05")
    \o Si("RECAUDOS" \in disp, "procesar_recaudos")
    \o <<"procesar_fnz001">>

\* cosechas.py lines 64-108: the steps of crear_cosechas
PasosCrearCosechas_todos(disp) ==
    <<"unir_con_ac", "unir_con_edades", "unir_con_r05", "unir_con_recaudos",
      "corregir_fechafac", "crear_fechafac_ajustada", "filtrar_registros_na">>
PasosCrearCosechas(disp) ==
    <<"unir_con_ac">>
    \o Si("EDADES" \in disp, "unir_con_edades")
    \o Si("R05" \in disp, "unir_con_r05")
    \o Si("RECAUDOS" \in disp, "unir_con_recaudos")
    \o <<"corregir_fechafac", "crear_fechafac_ajustada", "filtrar_registros_na">>

Fase2 ==
    /\ rpc = "fase2"
    /\ pasos' = pasos \o PasosFase2(disponibles)
    /\ rpc' = "fase3"
    /\ UNCHANGED <<cargas, disponibles, advertencias, resumen, salida, sinRun>>

\* lines 214-262: the four builders
Fase3 ==
    /\ rpc = "fase3"
    /\ pasos' = pasos \o <<"unir_datasets", "crear_cosechas">>
                      \o PasosCrearCosechas(disponibles)
                      \o <<"crear_crm", "crear_comportamiento">>
    /\ rpc' = "fase4"
    /\ UNCHANGED <<cargas, disponibles, advertencias, resumen, salida, sinRun>>

\* lines 276-309: the exports; the excluded rows are saved when there are any
Fase4 ==
    /\ rpc = "fase4"
    /\ \E hay_eliminados \in BOOLEAN :
          pasos' = pasos \o <<"guardar_Cosechas">>
                         \o Si(hay_eliminados, "guardar_Cosechas_Eliminados")
                         \o <<"guardar_CRM", "guardar_Comportamiento",
                              "guardar_BaseFNZ_Completo">>
                         \o Si("EDADES" \in disponibles, "guardar_BaseEdades")
    /\ rpc' = "resumen"
    /\ UNCHANGED <<cargas, disponibles, advertencias, resumen, salida, sinRun>>

\* lines 361-382: the summary of a successful run, then main() returns
ResumenFinal ==
    /\ rpc = "resumen"
    /\ resumen' = [escrito |-> TRUE, exitoso |-> TRUE, error_critico |-> <<>>,
                   errores |-> <<>>, advertencias |-> advertencias]
    /\ salida' = 0
    /\ rpc' = "fin"
    /\ UNCHANGED <<cargas, disponibles, pasos, advertencias, sinRun>>

\* lines 392-410: the handler writes the summary of the failure
ManejarError ==
    /\ rpc = "except"
    /\ resumen' = [escrito |-> TRUE, exitoso |-> FALSE,
                   error_critico |-> resumen.error_critico,
                   errores |-> <<resumen.error_critico>>,
                   advertencias |-> advertencias]
    /\ rpc' = "exit"
    /\ UNCHANGED <<cargas, disponibles, pasos, advertencias, salida, sinRun>>

\* line 417: sys.exit(1)
Salir ==
    /\ rpc = "exit"
    /\ salida' = 1
    /\ rpc' = "fin"
    /\ UNCHANGED <<cargas, disponibles, pasos, advertencias, resumen, sinRun>>

NextRun ==
    \/ CargarFNZ007 \/ CargarAC \/ CargarFNZ001
    \/ CargarEdades \/ CargarR05 \/ CargarRecaudos \/ CargarAuxiliares
    \/ Fase2 \/ Fase3 \/ Fase4 \/ ResumenFinal \/ ManejarError \/ Salir

SpecRun == InitRun /\ [][NextRun]_vars

FaltaCritico == \E n \in Criticos : cargas[n] # "datos"

\* C14: when a critical dataset (FNZ007, Analisis de Cartera, FNZ001) loads
\* absent or empty, no transformation, join, builder or export step runs,
\* the summary of the failure (exitoso false, with the error) is written,
\* and only then the process exits with status 1.
C14_CriticoAusenteAborta ==
    FaltaCritico =>
        /\ pasos = <<>>
        /\ rpc \notin {"fase2", "fase3", "fase4", "resumen"}
        /\ salida \in {SinSalida, 1}
        /\ salida = 1 =>
              /\ resumen.escrito /\ ~resumen.exitoso
              /\ resumen.error_critico # <<>>
              /\ cargas[resumen.error_critico[1]] # "datos"
              /\ \E i \in 1..Len(resumen.errores) : resumen.errores[i] = resumen.error_critico
        /\ rpc = "fin" => salida = 1

C14_Testigo ==
    /\ cargas["FNZ007"] = "datos" /\ cargas["ANALISIS_CARTERA"] = "vacio"
    /\ rpc = "fin" /\ salida = 1 /\ resumen.escrito


Contiene(s, x) == \E i \in 1..Len(s) : s[i] = x
Transformador(n) ==
    CASE n = "EDADES" -> "procesar_edades"
      [] n = "R05" -> "procesar_r05"
      [] n = "RECAUDOS" -> "procesar_recaudos"
UnionDe(n) ==
    CASE n = "EDADES" -> "unir_con_edades"
      [] n = "R05" -> "unir_con_r05"
      [] n = "RECAUDOS" -> "unir_con_recaudos"

ConColumna(df, col, valores) ==
    [columnas |-> df.columnas \cup {col},
     filas |-> [i \in 1..Len(df.filas) |->
                   [c \in (DOMAIN df.filas[i]) \cup {col} |->
                       IF c = col THEN valores[i] ELSE df.filas[i][c]]]]

\* base.py lines 67-89: the columns of the list that the table has are cleaned
limpiar_columnas_numericas_como_string_tabla(df, columnas) ==
    [columnas |-> df.columnas,
     filas |-> [i \in 1..Len(df.filas) |->
                   [c \in DOMAIN df.filas[i] |->
                       IF c \in columnas /\ c \in df.columnas
                       THEN limpiar_columnas_numericas_como_string(df.filas[i][c])
                       ELSE df.filas[i][c]]]]

\* base.py lines 106-116: without one of the two columns the table is
\* returned as it came, after an error in the log
crear_llave_cedula_numero_tabla(df, col_cedula, col_numero) ==
    IF col_cedula \notin df.columnas THEN [levanta |-> FALSE, df |-> df]
    ELSE IF col_numero \notin df.columnas THEN [levanta |-> FALSE, df |-> df]
    ELSE [levanta |-> FALSE,
          df |-> ConColumna(df, "cedula_numero",
                    [i \in 1..Len(df.filas) |->
                        crear_llave_cedula_numero(df.filas[i][col_cedula],
                                                  df.filas[i][col_numero], <<"-">>)])]

\* r05.py lines 151-157
convertir_tipos_r05_tabla(df) ==
    [columnas |-> df.columnas,
     filas |-> [i \in 1..Len(df.filas) |->
                   [c \in DOMAIN df.filas[i] |->
                       IF c \in {"cedula", "numero"} /\ c \in df.columnas
                       THEN convertir_tipos_r05(df.filas[i][c])
                       ELSE df.filas[i][c]]]]

\* r05.py lines 169-185
crear_llave_cedula_numero_r05_tabla(df) ==
    IF "cedula" \notin df.columnas \/ "numero" \notin df.columnas
    THEN [levanta |-> FALSE, df |-> df]
    ELSE [levanta |-> FALSE,
          df |-> ConColumna(df, "cedula_numero",
                    [i \in 1..Len(df.filas) |->
                        crear_llave_cedula_numero_r05(df.filas[i].cedula,
                                                      df.filas[i].numero)])]

\* analisis_cartera.py lines 33 and 46
llave_analisis_cartera(df) ==
    crear_llave_cedula_numero_tabla(
        limpiar_columnas_numericas_como_string_tabla(df, {"cedula", "numero"}),
        "cedula", "numero")

\* r05.py lines 57 and 62
llave_r05(df) == crear_llave_cedula_numero_r05_tabla(convertir_tipos_r05_tabla(df))

CeldasLlave == {RawNull, RawInt(FALSE, <<"5">>), RawStr(<<"7">>)}
TablasLlave ==
    UNION {[columnas : {cols},
            filas : SeqsUpTo({[cedula |-> c, numero |-> n] :
                                c \in IF "cedula" \in cols THEN CeldasLlave ELSE {RawNull},
                                n \in IF "numero" \in cols THEN CeldasLlave ELSE {RawNull}},
                             MaxFilasCos)] :
           cols \in SUBSET {"cedula", "numero", "corte"}}

InitLlave ==
    /\ fuente_llave \in {"ac", "r05"}
    /\ tabla_llave \in TablasLlave
    /\ res_llave = <<>>
    /\ lpc = "in"
    /\ SoloLlave

LlaveAnalisisCartera ==
    /\ lpc = "in" /\ fuente_llave = "ac"
    /\ res_llave' = llave_analisis_cartera(tabla_llave)
    /\ lpc' = "done"
    /\ UNCHANGED <<fuente_llave, tabla_llave, sinLlave>>

LlaveDeR05 ==
    /\ lpc = "in" /\ fuente_llave = "r05"
    /\ res_llave' = llave_r05(tabla_llave)
    /\ lpc' = "done"
    /\ UNCHANGED <<fuente_llave, tabla_llave, sinLlave>>

NextLlave == LlaveAnalisisCartera \/ LlaveDeR05

SpecLlave == InitLlave /\ [][NextLlave]_vars

\* C16: a transformer whose table lacks 'cedula' or 'numero' fails hard: it
\* raises, and does not return a table without the 'cedula_numero' column.
C16_SinColumnasFalla ==
    (lpc = "done" /\ ~({"cedula", "numero"} \subseteq tabla_llave.columnas)) =>
        res_llave.levanta


(***************************************************************************)
(* corregir_fechafac on a cohort table, rows [cedula_numero, corte,         *)
(* fechafac].                                                               *)
(***************************************************************************)
CortesFechafac ==
    {NaT, Fecha(2023, 1, 15), Fecha(2023, 12, 31), Fecha(2024, 1, 31),
     Fecha(2024, 11, 30)}
ValoresFechafac == {NaT, Fecha(2024, 2, 5), NoFecha}
FilasFechafac ==
    {[cedula_numero |-> <<"5", "-", "1">>, corte |-> c, fechafac |-> f] :
        c \in CortesFechafac, f \in ValoresFechafac}

InitFechafac ==
    /\ crudos = <<>>
    /\ tablas \in [cosechas : SeqsUpTo(FilasFechafac, MaxFilasCos)]
    /\ llaves_vacias = <<>> /\ Cosechas = <<>> /\ eliminados = <<>>
    /\ cpc = "in"
    /\ SoloCos

CorregirFechafac ==
    /\ cpc = "in"
    /\ Cosechas' = corregir_fechafac(tablas.cosechas)
    /\ cpc' = "corregido"
    /\ UNCHANGED <<crudos, tablas, llaves_vacias, eliminados, sinCos>>

NextFechafac == CorregirFechafac

SpecFechafac == InitFechafac /\ [][NextFechafac]_vars

\* the last calendar day of the month that follows the month of a date
UltimoDiaDelMesSiguiente(c) ==
    LET a == IF Mes(c) = 12 THEN Anio(c) + 1 ELSE Anio(c)
        m == IF Mes(c) = 12 THEN 1 ELSE Mes(c) + 1
    IN Fecha(a, m, DiasDelMes(a, m))

\* C17: a row whose 'fechafac' is null and whose 'corte' is present gets the
\* last day of the month after the month of 'corte'; a row whose 'fechafac'
\* was not null keeps it.
C17_FechafacCorregida ==
    cpc = "corregido" =>
        /\ Len(Cosechas) = Len(tablas.cosechas)
        /\ \A i \in 1..Len(Cosechas) :
              LET antes == tablas.cosechas[i]
              IN /\ (antes.fechafac = NaT /\ antes.corte # NaT) =>
                        Cosechas[i].fechafac = UltimoDiaDelMesSiguiente(antes.corte)
                 /\ antes.fechafac # NaT => Cosechas[i].fechafac = antes.fechafac

\* the same, for the rows whose 'fechafac' is null or a date
C17_FechasValidas ==
    cpc = "corregido" =>
        /\ Len(Cosechas) = Len(tablas.cosechas)
        /\ \A i \in 1..Len(Cosechas) :
              LET antes == tablas.cosechas[i]
              IN /\ (antes.fechafac = NaT /\ antes.corte # NaT) =>
                        Cosechas[i].fechafac = UltimoDiaDelMesSiguiente(antes.corte)
                 /\ antes.fechafac \notin {NaT, NoFecha} =>
                        Cosechas[i].fechafac = antes.fechafac


(***************************************************************************)
(* crm.py: unir_con_ac_primer_registro, with portfolio records that hold    *)
(* null in 'saldofac'.                                                      *)
(***************************************************************************)
FilasACPrimer ==
    {[cedula_numero |-> k, corte |-> c, saldofac |-> s, fechafac |-> NaT] :
        k \in LlavesJoin, c \in {Cortes[1], Cortes[2]}, s \in {NA, 1, 2}}

InitPrimer ==
    /\ caso = "crm"
    /\ izq \in SeqsUpTo(FilasIzq("crm"), MaxFilasCos)
    /\ der \in SeqsUpTo(FilasACPrimer, MaxFilasCos)
    /\ res = <<>>
    /\ jpc = "in"
    /\ SoloJoin

NextPrimer == UnirConAcPrimerRegistro

SpecPrimer == InitPrimer /\ [][NextPrimer]_vars

\* the portfolio record of a key whose 'corte' is before every other's
EsPrimerRegistro(j) ==
    \A h \in 1..Len(der) :
        (h # j /\ der[h].cedula_numero = der[j].cedula_numero) =>
            der[j].corte < der[h].corte

\* C18: the portfolio attributes of a CRM row are those of the record of its
\* cedula_numero with the earliest 'corte', also when that record holds
\* null and a later one holds a value.
C18_SoloElPrimerRegistro ==
    jpc = "done" =>
        \A i \in 1..Len(res) :
            \A j \in 1..Len(der) :
                (der[j].cedula_numero = res[i].cedula_numero /\ EsPrimerRegistro(j)) =>
                    res[i].saldofac = der[j].saldofac

\* the same, when the earliest record holds a value
C18_PrimerRegistroConValor ==
    jpc = "done" =>
        \A i \in 1..Len(res) :
            \A j \in 1..Len(der) :
                (/\ der[j].cedula_numero = res[i].cedula_numero
                 /\ EsPrimerRegistro(j) /\ der[j].saldofac # NA) =>
                    res[i].saldofac = der[j].saldofac


(***************************************************************************)
(* The order of the steps of the portfolio and of the FNZ007 transformers.  *)
(* A table is [columnas, filas]; the one column of the rows that the steps  *)
(* read is 'valor': the cell under the REG header of the portfolio, the     *)
(* cell under the DESEMBOLSO header of FNZ007, whatever the case of the     *)
(* header in the sheet.                                                     *)
(***************************************************************************)
\* str.lower() of a column name
lower(col) ==
    CASE col \in {"REG", "Reg", "reg"} -> "reg"
      [] col \in {"DESEMBOLSO", "desembolso"} -> "desembolso"
      [] col \in {"CEDULA", "cedula"} -> "cedula"
      [] col = "DF" -> "df"
      [] col = "NUMERO" -> "numero"
      [] OTHER -> col

\* base.py lines 8-13
convertir_columnas_minusculas(df) ==
    [df EXCEPT !.columnas = {lower(col) : col \in df.columnas}]

FINANSUENOS == <<"F", "I", "N", "A", "N", "S", "U", "E", "N", "O", "S">>
OTRA == <<"O", "T", "R", "A">>

\* analisis_cartera.py lines 5-19
filtrar_finansuenos_ac(df_ac_) ==
    IF "reg" \in df_ac_.columnas
    THEN [df_ac_ EXCEPT !.filas =
             Filtrar(df_ac_.filas,
                     {i \in 1..Len(df_ac_.filas) : df_ac_.filas[i].valor = FINANSUENOS})]
    ELSE df_ac_

\* analisis_cartera.py lines 29 and 36-43: lower case, then 'reg' is dropped
procesar_analisis_cartera_columnas(df) ==
    LET df_proc == convertir_columnas_minusculas(df)
    IN [df_proc EXCEPT !.columnas = @ \ {"reg"}]

\* str.split('-', n=1): the text before the first '-' and the text after it
PosGuion(s) ==
    IF \E i \in 1..Len(s) : s[i] = "-"
    THEN CHOOSE i \in 1..Len(s) : s[i] = "-" /\ \A j \in 1..(i - 1) : s[j] # "-"
    ELSE Len(s) + 1
split_0(s) == SubSeq(s, 1, PosGuion(s) - 1)
split_1(s) == SubSeq(s, PosGuion(s) + 1, Len(s))

\* fnz001.py lines 67-108
dividir_y_filtrar_desembolso(df) ==
    IF "DESEMBOLSO" \notin df.columnas THEN df
    ELSE LET partes == [i \in 1..Len(df.filas) |->
                           [valor |-> df.filas[i].valor,
                            DF |-> split_0(df.filas[i].valor),
                            NUMERO |-> split_1(df.filas[i].valor)]]
         IN [columnas |-> df.columnas \cup {"DF", "NUMERO"},
             filas |-> Filtrar(partes, {i \in 1..Len(partes) : partes[i].DF = <<"D", "F">>})]

EncabezadosAC == {{"CEDULA"}, {"CEDULA", "REG"}, {"CEDULA", "Reg"}, {"cedula", "reg"}}
EncabezadosFNZ007 == {{"CEDULA"}, {"CEDULA", "DESEMBOLSO"}, {"cedula", "desembolso"}}
TablasOrd(fuente) ==
    IF fuente = "ac"
    THEN [columnas : EncabezadosAC,
          filas : SeqsUpTo({[valor |-> v] : v \in {FINANSUENOS, OTRA}}, MaxFilasCos)]
    ELSE [columnas : EncabezadosFNZ007,
          filas : SeqsUpTo({[valor |-> v, DF |-> <<>>, NUMERO |-> <<>>] :
                               v \in {<<"D", "F", "-", "1">>, <<"X", "-", "1">>, <<"D", "F">>}},
                           MaxFilasCos)]

InitOrd ==
    /\ fuente_ord \in {"ac", "fnz007"}
    /\ tabla_ord \in TablasOrd(fuente_ord)
    /\ bitacora = <<>>
    /\ opc = "in"
    /\ SoloOrd

\* procesador.py line 154
FiltrarFinansuenosAC ==
    /\ fuente_ord = "ac" /\ opc = "in"
    /\ tabla_ord' = filtrar_finansuenos_ac(tabla_ord)
    /\ bitacora' = Append(bitacora, "filtrar_finansuenos_ac")
    /\ opc' = "filtrado"
    /\ UNCHANGED <<fuente_ord, sinOrd>>

\* procesador.py line 155
ProcesarAnalisisCartera ==
    /\ fuente_ord = "ac" /\ opc = "filtrado"
    /\ tabla_ord' = procesar_analisis_cartera_columnas(tabla_ord)
    /\ bitacora' = bitacora \o <<"convertir_columnas_minusculas",
                                 "limpiar_columnas_numericas_como_string",
                                 "eliminar_columnas", "crear_llave_cedula_numero">>
    /\ opc' = "done"
    /\ UNCHANGED <<fuente_ord, sinOrd>>

\* fnz001.py line 33
DividirYFiltrarDesembolso ==
    /\ fuente_ord = "fnz007" /\ opc = "in"
    /\ tabla_ord' = dividir_y_filtrar_desembolso(tabla_ord)
    /\ bitacora' = Append(bitacora, "dividir_y_filtrar_desembolso")
    /\ opc' = "dividido"
    /\ UNCHANGED <<fuente_ord, sinOrd>>

\* fnz001.py line 36: the repair tests its columns by name; the columns it
\* repairs are not columns of the table of the model
LimpiarOutliersFnz007 ==
    /\ fuente_ord = "fnz007" /\ opc = "dividido"
    /\ bitacora' = Append(bitacora, "limpiar_outliers_fnz007")
    /\ opc' = "limpio"
    /\ UNCHANGED <<fuente_ord, tabla_ord, sinOrd>>

\* fnz001.py lines 39-52
MinusculasYRestoFnz007 ==
    /\ fuente_ord = "fnz007" /\ opc = "limpio"
    /\ tabla_ord' = convertir_columnas_minusculas(tabla_ord)
    /\ bitacora' = bitacora \o <<"convertir_columnas_minusculas",
                                 "unificar_columnas_empleo", "categorizar_estado_civil",
                                 "categorizar_nivel_escolar", "eliminar_columnas_fnz007",
                                 "renombrar_columnas_fnz007">>
    /\ opc' = "done"
    /\ UNCHANGED <<fuente_ord, sinOrd>>

NextOrd ==
    \/ FiltrarFinansuenosAC \/ ProcesarAnalisisCartera
    \/ DividirYFiltrarDesembolso \/ LimpiarOutliersFnz007 \/ MinusculasYRestoFnz007

SpecOrd == InitOrd /\ [][NextOrd]_vars

\* C19: in each source transformer the column names are lower-cased before
\* any step that tests, reads or filters a column by name.
C19_MinusculasPrimero ==
    \A i \in 1..Len(bitacora) :
        bitacora[i] # "convertir_columnas_minusculas" =>
            \E j \in 1..(i - 1) : bitacora[j] = "convertir_columnas_minusculas"


(***************************************************************************)
(* The aggregation of Recaudos and of R05.  A raw R05 row is [nit,          *)
(* mcnnumcru2, mcnfecha, abono]; the transformed table is [columnas,        *)
(* filas].  Amounts are integers, NA the missing amount.                    *)
(***************************************************************************)
\* r05.py line 249: mcnfecha + pd.offsets.MonthEnd(0)
MonthEnd0(f) ==
    IF f = NaT THEN NaT ELSE Fecha(Anio(f), Mes(f), DiasDelMes(Anio(f), Mes(f)))

\* r05.py steps 1 to 5: corte, the renamed and cleaned identifiers, the key
r05_con_llave(df) ==
    [i \in 1..Len(df) |->
        [cedula |-> convertir_tipos_r05(df[i].nit).s,
         numero |-> convertir_tipos_r05(df[i].mcnnumcru2).s,
         corte |-> MonthEnd0(df[i].mcnfecha),
         abono |-> df[i].abono,
         cedula_numero |-> LlaveR05(df[i].nit, df[i].mcnnumcru2)]]

\* r05.py lines 188-203
filtrar_abono_positivo(df) == Filtrar(df, {i \in 1..Len(df) : df[i].abono > 0})

\* df.duplicated(subset=['cedula_numero', 'corte']).sum(): null dates are
\* equal to each other
HayDuplicadosR05(df) ==
    \E i, j \in 1..Len(df) :
        i < j /\ df[i].cedula_numero = df[j].cedula_numero /\ df[i].corte = df[j].corte

\* r05.py lines 206-232: the table is grouped only when it has duplicates
agrupar_duplicados_r05(df) ==
    IF HayDuplicadosR05(df)
    THEN LET grupos == OrdenarGrupos(GruposDe(df))
         IN [columnas |-> {"cedula_numero", "corte", "ABONO1"},
             filas |-> [k \in 1..Len(grupos) |->
                          [cedula_numero |-> grupos[k][1],
                           corte |-> grupos[k][2],
                           ABONO1 |-> sum(Columna(Filtrar(df,
                                         {i \in 1..Len(df) : EnGrupo(df[i], grupos[k])}),
                                         "abono"))]]]
    ELSE [columnas |-> {"cedula", "numero", "corte", "cedula_numero", "ABONO1"},
          filas |-> [i \in 1..Len(df) |->
                       [cedula |-> df[i].cedula, numero |-> df[i].numero,
                        corte |-> df[i].corte, cedula_numero |-> df[i].cedula_numero,
                        ABONO1 |-> df[i].abono]]]

\* r05.py lines 9-85
procesar_r05(df) == agrupar_duplicados_r05(filtrar_abono_positivo(r05_con_llave(df)))

\* recaudos.py lines 4-77, with the columns of the table it returns
procesar_recaudos_tabla(df) ==
    [columnas |-> {"cedula_numero", "corte", "capitalrec"},
     filas |-> procesar_recaudos(df)]

Montos == {NA, 0 - 2, 0, 1, 2}
NumerosAgg == {RawInt(FALSE, <<"1">>), RawInt(FALSE, <<"1", "0">>)}
FilasR05Crudas ==
    {[nit |-> RawInt(FALSE, <<"5">>), mcnnumcru2 |-> n, mcnfecha |-> f, abono |-> a] :
        n \in NumerosAgg, f \in {NaT, Fecha(2024, 1, 15), Fecha(2024, 1, 31)},
        a \in Montos}
FilasRecaudosAgg ==
    {[cedula |-> RawInt(FALSE, <<"5">>), numero |-> n, corte |-> c, capitalrec |-> a] :
        n \in NumerosAgg, c \in {NaT, Cortes[1], Cortes[2]}, a \in Montos}

InitAgg ==
    /\ crudos \in [fuente : {"r05"}, filas : SeqsUpTo(FilasR05Crudas, MaxFilasCos)]
                  \cup [fuente : {"recaudos"},
                        filas : SeqsUpTo(FilasRecaudosAgg, MaxFilasCos)]
    /\ tablas = <<>> /\ llaves_vacias = <<>> /\ Cosechas = <<>> /\ eliminados = <<>>
    /\ cpc = "in"
    /\ SoloCos

\* procesador.py line 180
ProcesarR05 ==
    /\ cpc = "in" /\ crudos.fuente = "r05"
    /\ tablas' = procesar_r05(crudos.filas)
    /\ cpc' = "agregado"
    /\ UNCHANGED <<crudos, llaves_vacias, Cosechas, eliminados, sinCos>>

\* procesador.py line 189
ProcesarRecaudos ==
    /\ cpc = "in" /\ crudos.fuente = "recaudos"
    /\ tablas' = procesar_recaudos_tabla(crudos.filas)
    /\ cpc' = "agregado"
    /\ UNCHANGED <<crudos, llaves_vacias, Cosechas, eliminados, sinCos>>

NextAgg == ProcesarR05 \/ ProcesarRecaudos

SpecAgg == InitAgg /\ [][NextAgg]_vars

\* the (cedula_numero, corte, amount) of the input rows and of the output rows
EntradaAgg ==
    IF crudos.fuente = "r05"
    THEN [i \in 1..Len(crudos.filas) |->
             [cedula_numero |-> LlaveR05(crudos.filas[i].nit, crudos.filas[i].mcnnumcru2),
              corte |-> MonthEnd0(crudos.filas[i].mcnfecha),
              monto |-> crudos.filas[i].abono]]
    ELSE [i \in 1..Len(crudos.filas) |->
             [cedula_numero |-> LlaveRecaudos(crudos.filas[i].cedula, crudos.filas[i].numero),
              corte |-> crudos.filas[i].corte,
              monto |-> crudos.filas[i].capitalrec]]
SalidaAgg ==
    [j \in 1..Len(tablas.filas) |->
        [cedula_numero |-> tablas.filas[j].cedula_numero,
         corte |-> tablas.filas[j].corte,
         monto |-> IF crudos.fuente = "r05" THEN tablas.filas[j].ABONO1
                   ELSE tablas.filas[j].capitalrec]]
NombreCanonico == IF crudos.fuente = "r05" THEN "ABONO1" ELSE "capitalrec"
MismoParAgg(a, b) == a.cedula_numero = b.cedula_numero /\ a.corte = b.corte
PositivosDe(fila) ==
    Filtrar(EntradaAgg, {i \in 1..Len(EntradaAgg) :
                            MismoParAgg(EntradaAgg[i], fila) /\ EntradaAgg[i].monto > 0})

ParesAgregados ==
    /\ \A i \in 1..Len(EntradaAgg) :
          EntradaAgg[i].corte # NaT =>
              LET filas == {j \in 1..Len(SalidaAgg) : MismoParAgg(SalidaAgg[j], EntradaAgg[i])}
                  positivos == PositivosDe(EntradaAgg[i])
              IN IF positivos = <<>> THEN filas = {}
                 ELSE /\ Cardinality(filas) = 1
                      /\ \A j \in filas : SalidaAgg[j].monto = SumaSeq(Columna(positivos, "monto"))
    /\ \A j \in 1..Len(SalidaAgg) :
          \E i \in 1..Len(EntradaAgg) : MismoParAgg(SalidaAgg[j], EntradaAgg[i])

\* C20: the table of Recaudos and the table of R05 have one row for each
\* (cedula_numero, corte) with a strictly positive amount, whose amount is
\* the sum of the strictly positive amounts of the pair; the pairs without
\* one are absent; and the columns are the key, 'corte' and the amount.
C20_SumaDePositivos ==
    cpc = "agregado" =>
        /\ ParesAgregados
        /\ tablas.columnas = {"cedula_numero", "corte", NombreCanonico}

\* the same for Recaudos alone
C20_Recaudos ==
    (cpc = "agregado" /\ crudos.fuente = "recaudos") =>
        /\ ParesAgregados
        /\ tablas.columnas = {"cedula_numero", "corte", NombreCanonico}

\* the rows of R05, whatever its columns
C20_FilasR05 ==
    (cpc = "agregado" /\ crudos.fuente = "r05") => ParesAgregados


(***************************************************************************)
(* cosechas.py: the joins of crear_cosechas with the optional tables, on    *)
(* tables that may lack a column.  An optional table is [columnas, filas],  *)
(* its rows [cedula_numero, corte, monto]; 'monto' is the cell under the    *)
(* amount column of the source (capital, ABONO1, capitalrec).  A join step  *)
(* gives [levanta, cosechas]: whether pandas raised KeyError, and the       *)
(* cohort it returned.                                                      *)
(***************************************************************************)
\* df[columnas_disponibles] with the amount column under its output name
TablaDerecha(df, nombre_monto, con_monto) ==
    [i \in 1..Len(df.filas) |->
        [c \in {"cedula_numero", "corte"} \cup (IF con_monto THEN {nombre_monto} ELSE {}) |->
            IF c = nombre_monto THEN df.filas[i].monto ELSE df.filas[i][c]]]

\* DataFrame.merge(on=[...], how='outer'): KeyError when a table lacks a
\* column of the key
merge_outer_tabla(cosechas, df, nombre_monto, con_monto) ==
    IF ~({"cedula_numero", "corte"} \subseteq df.columnas)
    THEN [levanta |-> TRUE, cosechas |-> cosechas]
    ELSE [levanta |-> FALSE,
          cosechas |-> merge_outer(cosechas, TablaDerecha(df, nombre_monto, con_monto),
                                   {"cedula_numero", "corte"}, ColumnasBase,
                                   {"cedula_numero", "corte"}
                                   \cup (IF con_monto THEN {nombre_monto} ELSE {}))]

\* cosechas.py lines 160-204
unir_con_edades_tabla(cosechas, df_edades) ==
    LET columnas_disponibles == df_edades.columnas \cap {"cedula_numero", "corte", "capital"}
    IN IF Cardinality(columnas_disponibles) < 2
       THEN [levanta |-> FALSE, cosechas |-> cosechas]
       ELSE merge_outer_tabla(cosechas, df_edades, "CAPITAL",
                              "capital" \in columnas_disponibles)

\* cosechas.py lines 207-243
unir_con_r05_tabla(cosechas, df_r05) ==
    IF "ABONO1" \notin df_r05.columnas
    THEN [levanta |-> FALSE, cosechas |-> cosechas]
    ELSE merge_outer_tabla(cosechas, df_r05, "ABONO1", TRUE)

\* cosechas.py lines 246-284
unir_con_recaudos_tabla(cosechas, df_recaudos) ==
    IF "capitalrec" \notin df_recaudos.columnas
    THEN [levanta |-> FALSE, cosechas |-> cosechas]
    ELSE merge_outer_tabla(cosechas, df_recaudos, "CAPITALREC", TRUE)

ColumnaMonto(fuente) ==
    CASE fuente = "edades" -> "capital"
      [] fuente = "r05" -> "ABONO1"
      [] fuente = "recaudos" -> "capitalrec"

CosechasDrift ==
    {<<>>, <<[cedula_numero |-> <<"5", "-", "1">>, corte |-> Cortes[1], valor |-> 7]>>}
FilasDrift ==
    {[cedula_numero |-> k, corte |-> c, monto |-> 3] :
        k \in {<<"5", "-", "1">>, <<"5", "-", "2">>}, c \in {Cortes[1], Cortes[2]}}

InitDrift ==
    /\ fuente_drift \in {"edades", "r05", "recaudos"}
    /\ cosechas_drift \in CosechasDrift
    /\ tabla_drift \in
          [columnas : SUBSET {"cedula_numero", "corte", ColumnaMonto(fuente_drift)},
           filas : SeqsUpTo(FilasDrift, MaxFilasCos)]
    /\ res_drift = <<>>
    /\ xpc = "in"
    /\ SoloDrift

UnirConEdades ==
    /\ xpc = "in" /\ fuente_drift = "edades"
    /\ res_drift' = unir_con_edades_tabla(cosechas_drift, tabla_drift)
    /\ xpc' = "done"
    /\ UNCHANGED <<fuente_drift, cosechas_drift, tabla_drift, sinDrift>>

UnirConR05 ==
    /\ xpc = "in" /\ fuente_drift = "r05"
    /\ res_drift' = unir_con_r05_tabla(cosechas_drift, tabla_drift)
    /\ xpc' = "done"
    /\ UNCHANGED <<fuente_drift, cosechas_drift, tabla_drift, sinDrift>>

UnirConRecaudos ==
    /\ xpc = "in" /\ fuente_drift = "recaudos"
    /\ res_drift' = unir_con_recaudos_tabla(cosechas_drift, tabla_drift)
    /\ xpc' = "done"
    /\ UNCHANGED <<fuente_drift, cosechas_drift, tabla_drift, sinDrift>>

NextDrift == UnirConEdades \/ UnirConR05 \/ UnirConRecaudos

SpecDrift == InitDrift /\ [][NextDrift]_vars

\* C21: when the optional table lacks 'cedula_numero' or 'corte', the join
\* step is skipped: it does not raise and returns the cohort unchanged.
C21_ColumnaAusenteOmiteUnion ==
    (xpc = "done" /\ ~({"cedula_numero", "corte"} \subseteq tabla_drift.columnas)) =>
        /\ ~res_drift.levanta
        /\ res_drift.cosechas = cosechas_drift

\* the same, when the table lacks its amount column
C21_SinMonto ==
    (/\ xpc = "done" /\ fuente_drift \in {"r05", "recaudos"}
     /\ ColumnaMonto(fuente_drift) \notin tabla_drift.columnas) =>
        /\ ~res_drift.levanta
        /\ res_drift.cosechas = cosechas_drift


(***************************************************************************)
(* cargador.py, corregir_fechadoc_ac: the days-past-due column of a sheet   *)
(* of the portfolio workbook is renamed to 'diasatras' at load.  A column   *)
(* name is a sequence of characters; the sheet is the sequence of its       *)
(* column names.  In this specification fuente_ord holds the names as the   *)
(* sheet has them, tabla_ord the names after the load, bitacora the log.    *)
(***************************************************************************)
upper_char(c) ==
    CASE c = "a" -> "A"
      [] c = "b" -> "B"
      [] c = "c" -> "C"
      [] c = "d" -> "D"
      [] c = "e" -> "E"
      [] c = "f" -> "F"
      [] c = "g" -> "G"
      [] c = "h" -> "H"
      [] c = "i" -> "I"
      [] c = "j" -> "J"
      [] c = "k" -> "K"
      [] c = "l" -> "L"
      [] c = "m" -> "M"
      [] c = "n" -> "N"
      [] c = "o" -> "O"
      [] c = "p" -> "P"
      [] c = "q" -> "Q"
      [] c = "r" -> "R"
      [] c = "s" -> "S"
      [] c = "t" -> "T"
      [] c = "u" -> "U"
      [] c = "v" -> "V"
      [] c = "w" -> "W"
      [] c = "x" -> "X"
      [] c = "y" -> "Y"
      [] c = "z" -> "Z"
      [] OTHER -> c

\* str.upper()
upper(s) == [i \in 1..Len(s) |-> upper_char(s[i])]

\* str.replace('_', ' ')
replace_guion_bajo(s) == [i \in 1..Len(s) |-> IF s[i] = "_" THEN " " ELSE s[i]]

\* cargador.py lines 209-218
patrones_busqueda ==
    <<<<"D", "I", "A", "S", " ", "A", "T", "R", "A", "S", "O">>,
      <<"D", "I", "A", "S", " ", "A", "T", "R", "A", "S", "O", "S">>,
      <<"D", "I", "A", "S", "A", "T", "R", "A", "S", "O">>,
      <<"D", "I", "A", "S", "A", "T", "R", "A", "S">>,
      <<"d", "i", "a", "s", "a", "t", "r", "a", "s">>,
      <<"D", "I", "A", "S", "_", "A", "T", "R", "A", "S", "O">>,
      <<"d", "i", "a", "s", " ", "a", "t", "r", "a", "s", "o">>,
      <<"D", "i", "a", "s", " ", "A", "t", "r", "a", "s", "o">>>>

diasatras == <<"d", "i", "a", "s", "a", "t", "r", "a", "s">>

\* cargador.py line 222 and line 225
col_normalizado(col) == replace_guion_bajo(Strip(upper(col)))

\* cargador.py lines 221-232: the first column that equals a pattern
coincide(col) ==
    \E p \in 1..Len(patrones_busqueda) :
        col_normalizado(col) = col_normalizado(patrones_busqueda[p])

col_dias_atraso(columnas) ==
    IF \E i \in 1..Len(columnas) : coincide(columnas[i])
    THEN CHOOSE i \in 1..Len(columnas) :
            /\ coincide(columnas[i])
            /\ \A j \in 1..(i - 1) : ~coincide(columnas[j])
    ELSE 0

\* cargador.py lines 204-246: the column names and the log line
normalizar_dias_atraso(columnas) ==
    LET i == col_dias_atraso(columnas)
    IN IF i = 0 THEN [columnas |-> columnas, log |-> "warning"]
       ELSE IF columnas[i] # diasatras
            THEN [columnas |-> [columnas EXCEPT ![i] = diasatras], log |-> "renombrada"]
            ELSE [columnas |-> columnas, log |-> "ya"]

\* The spellings the sheets are given: the listed ones, the plural without a
\* space, an underscored plural, a padded one, and another column.
Grafias ==
    {<<"D", "I", "A", "S", " ", "A", "T", "R", "A", "S", "O">>,
     <<"D", "I", "A", "S", " ", "A", "T", "R", "A", "S", "O", "S">>,
     <<"D", "I", "A", "S", "A", "T", "R", "A", "S", "O">>,
     <<"D", "I", "A", "S", "A", "T", "R", "A", "S">>,
     <<"d", "i", "a", "s", "a", "t", "r", "a", "s">>,
     <<"D", "I", "A", "S", "_", "A", "T", "R", "A", "S", "O">>,
     <<"d", "i", "a", "s", " ", "a", "t", "r", "a", "s", "o">>,
     <<"D", "i", "a", "s", " ", "A", "t", "r", "a", "s", "o">>,
     <<"D", "I", "A", "S", "A", "T", "R", "A", "S", "O", "S">>,
     <<"d", "i", "a", "s", "_", "a", "t", "r", "a", "s", "o", "s">>,
     <<" ", "D", "i", "a", "s", " ", "A", "t", "r", "a", "s", "o", " ">>,
     <<"S", "A", "L", "D", "O">>}

InitDias ==
    /\ fuente_ord \in UNION {[1..k -> Grafias] : k \in 1..2}
    /\ tabla_ord = <<>>
    /\ bitacora = <<>>
    /\ opc = "hoja"
    /\ SoloOrd

CorregirFechadocAC ==
    /\ opc = "hoja"
    /\ tabla_ord' = normalizar_dias_atraso(fuente_ord).columnas
    /\ bitacora' = <<normalizar_dias_atraso(fuente_ord).log>>
    /\ opc' = "cargada"
    /\ UNCHANGED <<fuente_ord, sinOrd>>

NextDias == CorregirFechadocAC

SpecDias == InitDias /\ [][NextDias]_vars

\* a name without its spaces and underscores
RECURSIVE SinSeparadores(_)
SinSeparadores(s) ==
    IF s = <<>> THEN <<>>
    ELSE IF Head(s) \in {" ", "_"} THEN SinSeparadores(Tail(s))
         ELSE <<Head(s)>> \o SinSeparadores(Tail(s))

\* a historical spelling of the days-past-due column, in any case and with
\* or without spaces and underscores
EsGrafiaHistorica(col) ==
    SinSeparadores(upper(col)) \in
        {<<"D", "I", "A", "S", "A", "T", "R", "A", "S">>, <<"D", "I", "A", "S", "A", "T", "R", "A", "S", "O">>, <<"D", "I", "A", "S", "A", "T", "R", "A", "S", "O", "S">>}

\* C22: a sheet whose only days-past-due column has a historical spelling is
\* loaded with that column named 'diasatras'.
C22_DiasAtrasoRenombrada ==
    opc = "cargada" =>
        \A i \in 1..Len(fuente_ord) :
            (/\ EsGrafiaHistorica(fuente_ord[i])
             /\ \A j \in 1..Len(fuente_ord) : j # i => ~EsGrafiaHistorica(fuente_ord[j]))
            => tabla_ord[i] = diasatras

\* the same for the spellings that equal a listed pattern once upper-cased,
\* stripped and with '_' replaced by ' '
C22_GrafiasListadas ==
    opc = "cargada" =>
        \A i \in 1..Len(fuente_ord) :
            (/\ coincide(fuente_ord[i])
             /\ \A j \in 1..Len(fuente_ord) : j # i => ~coincide(fuente_ord[j]))
            => tabla_ord[i] = diasatras


(***************************************************************************)
(* crm.py, crear_rango_ingresos, crear_rango_edad, crear_rango_cuotas: the  *)
(* fixed-width ranges of a numeric column.  A column is a sequence of       *)
(* numbers, NA the missing one.  A label "lower - upper" is held as the     *)
(* record [lower, upper] the text is formatted from; SinRango is the        *)
(* missing label.  In this specification fuente_drift holds the variable,   *)
(* tabla_drift its column and res_drift [levanta, rangos].                  *)
(***************************************************************************)
SinRango == [lower |-> NA, upper |-> NA]

\* Series.max(): the largest non-null value, NA when there is none
max(columna) ==
    LET validos == {columna[i] : i \in 1..Len(columna)} \ {NA}
    IN IF validos = {} THEN NA
       ELSE CHOOSE m \in validos : \A v \in validos : v <= m

\* np.arange(start, stop, step): start + i*step for the i with a value below stop
np_arange(start, stop, step) ==
    IF stop <= start THEN <<>>
    ELSE [i \in 1..(((stop - start - 1) \div step) + 1) |-> start + (i - 1) * step]

\* the labels of the bins: crm.py line 249
labels(breaks) ==
    [i \in 1..(IF Len(breaks) = 0 THEN 0 ELSE Len(breaks) - 1) |->
        [lower |-> breaks[i], upper |-> breaks[i + 1]]]

\* pd.cut(x, bins=breaks, labels=labels, include_lowest=True) of one value
pd_cut_valor(v, breaks) ==
    IF v = NA THEN SinRango
    ELSE IF \E i \in 1..(Len(breaks) - 1) : breaks[i] < v /\ v <= breaks[i + 1]
         THEN labels(breaks)[CHOOSE i \in 1..(Len(breaks) - 1) :
                                 breaks[i] < v /\ v <= breaks[i + 1]]
         ELSE IF Len(breaks) >= 2 /\ v = breaks[1] THEN labels(breaks)[1]
              ELSE SinRango

\* pd.cut raises when it is given no bin edge
pd_cut(columna, breaks) ==
    IF breaks = <<>>
    THEN [levanta |-> TRUE, rangos |-> <<>>]
    ELSE [levanta |-> FALSE,
          rangos |-> [i \in 1..Len(columna) |-> pd_cut_valor(columna[i], breaks)]]

\* the body the three functions share: crm.py lines 243-256, 391-403, 437-449
crear_rango(columna, piso, ancho) ==
    LET valor_max == max(columna)
    IN IF valor_max = NA
       THEN [levanta |-> FALSE, rangos |-> [i \in 1..Len(columna) |-> SinRango]]
       ELSE pd_cut(columna, np_arange(piso, valor_max + ancho, ancho))

crear_rango_ingresos(columna) == crear_rango(columna, 0, 1000000)
crear_rango_edad(columna) == crear_rango(columna, 18, 5)
crear_rango_cuotas(columna) == crear_rango(columna, 6, 3)

Piso(variable) ==
    CASE variable = "ingresos" -> 0 [] variable = "edad" -> 18 [] variable = "cuotas" -> 6
Ancho(variable) ==
    CASE variable = "ingresos" -> 1000000 [] variable = "edad" -> 5 [] variable = "cuotas" -> 3

ValoresRango(variable) ==
    CASE variable = "ingresos" -> {NA, 0, 1, 1000000, 1000001, 2500000}
      [] variable = "edad" -> {NA, 13, 17, 18, 19, 23, 24}
      [] variable = "cuotas" -> {NA, 3, 5, 6, 7, 9, 12}

InitRango ==
    /\ fuente_drift \in {"ingresos", "edad", "cuotas"}
    /\ tabla_drift \in UNION {[1..k -> ValoresRango(fuente_drift)] : k \in 1..2}
    /\ cosechas_drift = <<>>
    /\ res_drift = <<>>
    /\ xpc = "in"
    /\ SoloDrift

CrearRangoIngresos ==
    /\ xpc = "in" /\ fuente_drift = "ingresos"
    /\ res_drift' = crear_rango_ingresos(tabla_drift)
    /\ xpc' = "done"
    /\ UNCHANGED <<fuente_drift, cosechas_drift, tabla_drift, sinDrift>>

CrearRangoEdad ==
    /\ xpc = "in" /\ fuente_drift = "edad"
    /\ res_drift' = crear_rango_edad(tabla_drift)
    /\ xpc' = "done"
    /\ UNCHANGED <<fuente_drift, cosechas_drift, tabla_drift, sinDrift>>

CrearRangoCuotas ==
    /\ xpc = "in" /\ fuente_drift = "cuotas"
    /\ res_drift' = crear_rango_cuotas(tabla_drift)
    /\ xpc' = "done"
    /\ UNCHANGED <<fuente_drift, cosechas_drift, tabla_drift, sinDrift>>

NextRango == CrearRangoIngresos \/ CrearRangoEdad \/ CrearRangoCuotas

SpecRango == InitRango /\ [][NextRango]_vars

\* the label the value v must get: one bin of width w starting at f + k*w
\* with lower < v <= upper, or the first bin for v = f
EtiquetaCorrecta(rango, v, f, w) ==
    /\ rango # SinRango
    /\ rango.upper = rango.lower + w
    /\ rango.lower >= f /\ (rango.lower - f) % w = 0
    /\ \/ rango.lower < v /\ v <= rango.upper
       \/ v = f /\ rango.lower = f

RangosCorrectos ==
    LET f == Piso(fuente_drift)
        w == Ancho(fuente_drift)
    IN /\ ~res_drift.levanta
       /\ \A i \in 1..Len(tabla_drift) :
             LET v == tabla_drift[i]
             IN /\ (v # NA /\ v >= f) => EtiquetaCorrecta(res_drift.rangos[i], v, f, w)
                /\ (v # NA /\ v < f) => res_drift.rangos[i] = SinRango

\* C23: for a column with at least one valid value the bucketing succeeds,
\* every value from the floor to the maximum gets the label of its bin and
\* the values below the floor get none.
C23_RangoDeCadaValor ==
    (xpc = "done" /\ max(tabla_drift) # NA) => RangosCorrectos

\* the same for the columns whose maximum is above the floor
C23_MaximoSobreElPiso ==
    (xpc = "done" /\ max(tabla_drift) # NA /\ max(tabla_drift) > Piso(fuente_drift))
        => RangosCorrectos


(***************************************************************************)
(* comportamiento.py, pivotar_comportamiento: the wide pivot.  A row of the *)
(* projected portfolio table is [cedula_numero, corte, diasatras,           *)
(* saldofac], two of the seven metrics.  The pivoted table is               *)
(* [columnas, filas]: the names of its metric columns, and a row            *)
(* [cedula_numero, celdas] per key, celdas a function of the column names.  *)
(***************************************************************************)
Metricas == {"diasatras", "saldofac"}

NombreMetrica(m) ==
    IF m = "diasatras" THEN diasatras
    ELSE <<"s", "a", "l", "d", "o", "f", "a", "c">>

DosCifras(n) == <<DigitChr(n \div 10), DigitChr(n % 10)>>

\* dt.strftime('%Y-%m-%d')
strftime_iso(f) ==
    DosCifras(Anio(f) \div 100) \o DosCifras(Anio(f) % 100) \o <<"-">>
    \o DosCifras(Mes(f)) \o <<"-">> \o DosCifras(Dia(f))

\* '_'.join(col): comportamiento.py line 227
NombreColumna(m, corte) == NombreMetrica(m) \o <<"_">> \o strftime_iso(corte)

\* GroupBy 'first' of a numeric column: the first value that is not null
RECURSIVE first_numerico(_)
first_numerico(xs) ==
    IF xs = <<>> THEN NA
    ELSE IF Head(xs) # NA THEN Head(xs) ELSE first_numerico(Tail(xs))

\* groupby(['cedula_numero', 'corte']).agg('first') of a metric
agged(df, k, c, m) ==
    first_numerico(Columna(Filtrar(df, {i \in 1..Len(df) :
                                          df[i].cedula_numero = k /\ df[i].corte = c}), m))

\* the groups pivot_table keeps: rows without date are in no group, and
\* agged.dropna(how='all') drops the groups with no metric
GruposPivote(df) ==
    {g \in GruposDe(df) : \E m \in Metricas : agged(df, g[1], g[2], m) # NA}

celda(df, k, c, m) ==
    IF <<k, c>> \in GruposPivote(df) THEN agged(df, k, c, m) ELSE NA

\* comportamiento.py lines 191-246
pivotar_comportamiento(df) ==
    LET grupos == GruposPivote(df)
        indice == OrdenarClaves({[cedula_numero |-> g[1]] : g \in grupos})
        \* table.dropna(how='all', axis=1): the columns with a value
        pares == {<<m, g[2]>> : m \in Metricas, g \in grupos}
        conValor == {p \in pares :
                        \E i \in 1..Len(indice) :
                            celda(df, indice[i].cedula_numero, p[2], p[1]) # NA}
        columnas == {NombreColumna(p[1], p[2]) : p \in conValor}
    IN [columnas |-> columnas,
        filas |-> [i \in 1..Len(indice) |->
            [cedula_numero |-> indice[i].cedula_numero,
             celdas |-> [n \in columnas |->
                LET p == CHOOSE q \in conValor : NombreColumna(q[1], q[2]) = n
                IN celda(df, indice[i].cedula_numero, p[2], p[1])]]]]

FilasComportamiento ==
    {[cedula_numero |-> k, corte |-> c, diasatras |-> d, saldofac |-> s] :
        k \in {<<"5", "-", "1">>, <<"5", "-", "2">>},
        c \in {Cortes[1], Cortes[2]}, d \in {NA, 0, 40}, s \in {NA, 5}}

InitPiv ==
    /\ Comportamiento \in SeqsUpTo(FilasComportamiento, MaxFilasCos)
    /\ df_pivotado = <<>>
    /\ ppc = "in"
    /\ SoloPiv

PivotarComportamiento ==
    /\ ppc = "in"
    /\ df_pivotado' = pivotar_comportamiento(Comportamiento)
    /\ ppc' = "done"
    /\ UNCHANGED <<Comportamiento, sinPiv>>

NextPiv == PivotarComportamiento

SpecPiv == InitPiv /\ [][NextPiv]_vars

\* the rows of the input with the key k and the date c, in table order
FilasDe(k, c) ==
    Filtrar(Comportamiento, {i \in 1..Len(Comportamiento) :
        Comportamiento[i].cedula_numero = k /\ Comportamiento[i].corte = c})

\* C24: the pivoted table has one row per key of the input, one column
\* "{metric}_{ISO date}" per metric and date of the input, and each cell
\* holds the value of the first input row of its key and date, or null.
C24_PivoteAncho ==
    ppc = "done" =>
        LET llaves == {Comportamiento[i].cedula_numero : i \in 1..Len(Comportamiento)}
            fechas == {Comportamiento[i].corte : i \in 1..Len(Comportamiento)}
        IN /\ {df_pivotado.filas[i].cedula_numero : i \in 1..Len(df_pivotado.filas)} = llaves
           /\ Len(df_pivotado.filas) = Cardinality(llaves)
           /\ df_pivotado.columnas = {NombreColumna(m, c) : m \in Metricas, c \in fechas}
           /\ \A i \in 1..Len(df_pivotado.filas), m \in Metricas, c \in fechas :
                 LET k == df_pivotado.filas[i].cedula_numero
                 IN df_pivotado.filas[i].celdas[NombreColumna(m, c)] =
                        IF FilasDe(k, c) = <<>> THEN NA ELSE FilasDe(k, c)[1][m]

\* the same for the columns the pivot has, when no cell of the input is null
C24_SinNulos ==
    (/\ ppc = "done"
     /\ \A i \in 1..Len(Comportamiento), m \in Metricas : Comportamiento[i][m] # NA) =>
        LET llaves == {Comportamiento[i].cedula_numero : i \in 1..Len(Comportamiento)}
            fechas == {Comportamiento[i].corte : i \in 1..Len(Comportamiento)}
        IN /\ {df_pivotado.filas[i].cedula_numero : i \in 1..Len(df_pivotado.filas)} = llaves
           /\ Len(df_pivotado.filas) = Cardinality(llaves)
           /\ df_pivotado.columnas = {NombreColumna(m, c) : m \in Metricas, c \in fechas}
           /\ \A i \in 1..Len(df_pivotado.filas), m \in Metricas, c \in fechas :
                 LET k == df_pivotado.filas[i].cedula_numero
                 IN df_pivotado.filas[i].celdas[NombreColumna(m, c)] =
                        IF FilasDe(k, c) = <<>> THEN NA ELSE FilasDe(k, c)[1][m]


(***************************************************************************)
(* The three builders and the tables they are given.  A DataFrame is an     *)
(* object: 'objetos' holds the table of each object by the name it is bound *)
(* to, .copy() binds a name to a new object, and an assignment to a column  *)
(* changes the object in place.  A portfolio row is [cedula_numero, corte,  *)
(* diasatras, saldofac, fechafac], a row of the unified base                *)
(* [cedula_numero, corte, valor].                                           *)
(***************************************************************************)
\* DataFrame.copy(): the name is bound to an object of its own.  In the
\* variant the name is bound to the object it was copied from.
copy_alias(objs, origen, nuevo, tabla) == [ref |-> origen, objs |-> objs]
copy(objs, origen, nuevo, tabla) ==
    [ref |-> nuevo, objs |-> [objs EXCEPT ![nuevo] = tabla]]

\* df['Mora'] = np.select(...): comportamiento.py lines 158-176, in place
asignar_Mora(df) ==
    [i \in 1..Len(df) |->
        [c \in DOMAIN df[i] \cup {"Mora"} |->
            IF c = "Mora"
            THEN np_select(conditions(IF df[i].diasatras = NA THEN NaN
                                      ELSE [t |-> "num", v |-> df[i].diasatras]),
                           choices, NULL)
            ELSE df[i][c]]]

\* df['corte'] = pd.to_datetime(df['corte']).dt.strftime('%Y-%m-%d'):
\* comportamiento.py line 208, in place
asignar_corte_iso(df) ==
    [i \in 1..Len(df) |-> [df[i] EXCEPT !.corte = strftime_iso(df[i].corte)]]

ColumnasComportamiento == {"cedula_numero", "diasatras", "corte", "fechafac", "saldofac"}

\* comportamiento.py lines 36-56: the pivot with the disbursed value
ComportamientoDe(df_ac_, df_fnz007) ==
    unir_valor_desembolsado(
        pivotar_comportamiento(Seleccionar(df_ac_, ColumnasComportamiento)).filas,
        df_fnz007)

\* crm.py lines 36-43
CRMDe(df_fnz007, df_ac_) == unir_con_ac_primer_registro(df_fnz007, df_ac_)

\* cosechas.py lines 43-121, without the optional tables
CosechasDe(df_fnz007, df_ac_) == crear_cosechas(df_fnz007, df_ac_, <<>>).Cosechas

FilasBaseAC ==
    {[cedula_numero |-> k, corte |-> c, diasatras |-> d, saldofac |-> 1, fechafac |-> NaT] :
        k \in {<<"5", "-", "1">>, <<"5", "-", "2">>},
        c \in {Cortes[1], Cortes[2]}, d \in {NA, 40}}

InitObj ==
    /\ entradas \in [fnz : BasesFNZ, ac : SeqsUpTo(FilasBaseAC, MaxFilasCos)]
    /\ objetos = [BaseFNZ |-> entradas.fnz, BaseAC |-> entradas.ac,
                  Cosechas |-> <<>>, CRM |-> <<>>,
                  Comportamiento |-> <<>>, ComportamientoH |-> <<>>]
    /\ construidos = {}
    /\ SoloObj

\* cosechas.py: Cosechas = df_fnz007[columnas_base].copy(), then the joins,
\* each of which returns a new table
ConstruirCosechas ==
    /\ "cosechas" \notin construidos
    /\ LET c == copy(objetos, "BaseFNZ", "Cosechas",
                     Seleccionar(objetos.BaseFNZ, ColumnasBase))
       IN objetos' = [c.objs EXCEPT !.Cosechas =
                         CosechasDe(c.objs[c.ref], c.objs.BaseAC)]
    /\ construidos' = construidos \cup {"cosechas"}
    /\ UNCHANGED <<entradas, sinObj>>

\* crm.py: CRM = df_fnz007.copy(), then the join, which returns a new table
ConstruirCRM ==
    /\ "crm" \notin construidos
    /\ LET c == copy(objetos, "BaseFNZ", "CRM", objetos.BaseFNZ)
       IN objetos' = [c.objs EXCEPT !.CRM = CRMDe(c.objs[c.ref], c.objs.BaseAC)]
    /\ construidos' = construidos \cup {"crm"}
    /\ UNCHANGED <<entradas, sinObj>>

\* comportamiento.py: Comportamiento = df_ac[columnas].copy(); 'Mora' and
\* 'corte' are assigned in place; the pivot and the join are new tables
ConstruirComportamiento ==
    /\ "comportamiento" \notin construidos
    /\ LET c == copy(objetos, "BaseAC", "Comportamiento",
                     Seleccionar(objetos.BaseAC, ColumnasComportamiento))
           h2 == [c.objs EXCEPT ![c.ref] = asignar_Mora(c.objs[c.ref])]
           pivote_ == ComportamientoDe(h2[c.ref], h2.BaseFNZ)
           h3 == [h2 EXCEPT ![c.ref] = asignar_corte_iso(h2[c.ref])]
       IN objetos' = [h3 EXCEPT !.ComportamientoH = pivote_]
    /\ construidos' = construidos \cup {"comportamiento"}
    /\ UNCHANGED <<entradas, sinObj>>

NextObj == ConstruirCosechas \/ ConstruirCRM \/ ConstruirComportamiento

SpecObj == InitObj /\ [][NextObj]_vars

\* the same rows, columns and values
MismaTabla(a, b) ==
    /\ Len(a) = Len(b)
    /\ \A i \in 1..Len(a) : DOMAIN a[i] = DOMAIN b[i] /\ a[i] = b[i]

\* C25: whichever builders have run, in whatever order, the unified base and
\* the portfolio table are as they were built, and the output of each
\* builder is the one it gives on those tables.
C25_EntradasIntactas ==
    /\ MismaTabla(objetos.BaseFNZ, entradas.fnz)
    /\ MismaTabla(objetos.BaseAC, entradas.ac)
    /\ "cosechas" \in construidos =>
          objetos.Cosechas = CosechasDe(entradas.fnz, entradas.ac)
    /\ "crm" \in construidos => objetos.CRM = CRMDe(entradas.fnz, entradas.ac)
    /\ "comportamiento" \in construidos =>
          objetos.ComportamientoH = ComportamientoDe(entradas.ac, entradas.fnz)

C25_Testigo ==
    /\ construidos = {"cosechas", "crm", "comportamiento"}
    /\ Len(entradas.ac) = 2 /\ Len(entradas.fnz) = 1
    /\ objetos.Comportamiento # <<>> /\ objetos.ComportamientoH # <<>>


(***************************************************************************)
(* fnz001.py, renombrar_columnas_fnz007, and the end of crm.py, crear_crm:  *)
(* the columns of the CRM output.  Here a table is [columnas, filas] with   *)
(* 'columnas' the sequence of its column names and each row the sequence of *)
(* its cells, so that two columns may bear the same name.  In this          *)
(* specification tabla_ord holds the table and bitacora the steps run.      *)
(***************************************************************************)
\* crm.py lines 66-76
columnas_r ==
    <<"numero", "analista", "fecha", "ciudad", "nomciudad", "fs0vende", "vennombre",
      "ccosto", "cconombre", "fs0montoap", "cuotas", "valor_tota", "fs1sexo",
      "fs1nacfec", "fs1estcvil", "npercargo", "vvdatipo", "vvdaaval", "ingresos",
      "gastos", "nvescolar", "corte2", "act_lab", "empresa", "cargos", "cedula",
      "corte", "cedula_numero", "valor", "fechapag", "valatras", "saldofac",
      "cuotaatras", "valorcuota", "totcuotas", "cuotaspag", "rango_ingresos",
      "rango_avaluo", "rango_monto", "rango_gastos", "edad", "rango_edad",
      "rango_cuotas">>

EnColumnas(df, c) == \E i \in 1..Len(df.columnas) : df.columnas[i] = c

\* DataFrame.rename(columns=renames)
rename(df, renames) ==
    [df EXCEPT !.columnas =
        [i \in 1..Len(df.columnas) |->
            IF df.columnas[i] \in DOMAIN renames THEN renames[df.columnas[i]]
            ELSE df.columnas[i]]]

\* fnz001.py lines 381-400
renombrar_columnas_fnz007(df) ==
    rename(df, [k \in {"ciudad", "codciudad"} |->
                   IF k = "ciudad" THEN "nomciudad" ELSE "ciudad"])

\* the positions of a set, in ascending order
RECURSIVE EnOrden(_)
EnOrden(S) ==
    IF S = {} THEN <<>>
    ELSE LET m == CHOOSE x \in S : \A y \in S : x <= y
         IN <<m>> \o EnOrden(S \ {m})

\* df[cols]: for each name, every column of df that bears it
RECURSIVE PosicionesDe(_, _)
PosicionesDe(df, cols) ==
    IF cols = <<>> THEN <<>>
    ELSE EnOrden({i \in 1..Len(df.columnas) : df.columnas[i] = Head(cols)})
         \o PosicionesDe(df, Tail(cols))

seleccionar_columnas(df, cols) ==
    LET pos == PosicionesDe(df, cols)
    IN [columnas |-> [j \in 1..Len(pos) |-> df.columnas[pos[j]]],
        filas |-> [r \in 1..Len(df.filas) |-> [j \in 1..Len(pos) |-> df.filas[r][pos[j]]]]]

\* DataFrame.drop_duplicates(): the first of the rows that are equal
drop_duplicates_filas(df) ==
    LET primeras == EnOrden({r \in 1..Len(df.filas) :
                                \A q \in 1..(r - 1) : df.filas[q] # df.filas[r]})
    IN [df EXCEPT !.filas = [j \in 1..Len(primeras) |-> df.filas[primeras[j]]]]

\* crm.py lines 79-81: CRM['corte2'] = CRM['corte']
agregar_corte2(df) ==
    IF ~EnColumnas(df, "corte2") /\ EnColumnas(df, "corte")
    THEN LET p == CHOOSE i \in 1..Len(df.columnas) : df.columnas[i] = "corte"
         IN [columnas |-> Append(df.columnas, "corte2"),
             filas |-> [r \in 1..Len(df.filas) |-> Append(df.filas[r], df.filas[r][p])]]
    ELSE df

\* crm.py lines 78-92
ajustar_columnas_crm(CRM) ==
    LET renombrado == agregar_corte2(rename(CRM, [k \in {"nomciudad"} |-> "ciudad"]))
        buenas == EnOrden({i \in 1..Len(columnas_r) : EnColumnas(renombrado, columnas_r[i])})
        cols_ok == [j \in 1..Len(buenas) |-> columnas_r[buenas[j]]]
    IN drop_duplicates_filas(seleccionar_columnas(renombrado, cols_ok))

\* The sheets of the loan master: some of these columns, in this order
ColumnasHojaFNZ == <<"codciudad", "ciudad", "numero", "corte", "sucursal">>

HojasFNZ ==
    {seleccionar_columnas([columnas |-> ColumnasHojaFNZ, filas |-> filas_],
                          [j \in 1..Cardinality(S) |-> ColumnasHojaFNZ[EnOrden(S)[j]]]) :
        S \in SUBSET (1..5), filas_ \in SeqsUpTo({<<1, 1, 1, 1, 1>>, <<1, 2, 1, 2, 1>>,
                                                  <<2, 1, 1, 1, 2>>}, MaxFilasCos)}

InitCRM ==
    /\ fuente_ord = "fnz007"
    /\ tabla_ord \in HojasFNZ
    /\ bitacora = <<>>
    /\ opc = "fnz007"
    /\ SoloOrd

RenombrarColumnasFnz007 ==
    /\ opc = "fnz007"
    /\ tabla_ord' = renombrar_columnas_fnz007(tabla_ord)
    /\ bitacora' = Append(bitacora, "renombrar_columnas_fnz007")
    /\ opc' = "crm"
    /\ UNCHANGED <<fuente_ord, sinOrd>>

AjustarColumnasCRM ==
    /\ opc = "crm"
    /\ tabla_ord' = ajustar_columnas_crm(tabla_ord)
    /\ bitacora' = Append(bitacora, "crear_crm")
    /\ opc' = "salida"
    /\ UNCHANGED <<fuente_ord, sinOrd>>

NextCRM == RenombrarColumnasFnz007 \/ AjustarColumnasCRM

SpecCRM == InitCRM /\ [][NextCRM]_vars

PosicionEnLista(c) == CHOOSE i \in 1..Len(columnas_r) : columnas_r[i] = c

ColumnasPublicadas ==
    /\ \A i \in 1..Len(tabla_ord.columnas) :
          \E j \in 1..Len(columnas_r) : columnas_r[j] = tabla_ord.columnas[i]
    /\ \A i, j \in 1..Len(tabla_ord.columnas) :
          i < j => PosicionEnLista(tabla_ord.columnas[i]) < PosicionEnLista(tabla_ord.columnas[j])
    /\ \A i, j \in 1..Len(tabla_ord.filas) : i # j => tabla_ord.filas[i] # tabla_ord.filas[j]

\* C26: the columns of the CRM output are columns of the published list,
\* each once and in the order of the list, and no two rows are equal.
C26_ColumnasPublicadasUnaVez ==
    opc = "salida" => ColumnasPublicadas

\* the same when the sheet does not have both 'ciudad' and 'codciudad'
C26_UnaSolaCiudad ==
    (opc = "salida" /\ Cardinality({i \in 1..Len(tabla_ord.columnas) :
                                       tabla_ord.columnas[i] = "ciudad"}) < 2)
        => ColumnasPublicadas


(***************************************************************************)
(* procesador.py, main(), step by step: each transformer, builder and       *)
(* export is a call that returns or raises; an exception leaves the try     *)
(* block for the handler.  'pasos' holds the calls that have returned, in   *)
(* order (crear_cosechas after the joins it makes).                         *)
(***************************************************************************)
\* lines 214-262: the join and the three builders.  The variant leaves the
\* behaviour pivot out.
PasosFase3_sin_comportamiento(disp) ==
    <<"unir_datasets">> \o PasosCrearCosechas(disp) \o <<"crear_cosechas", "crear_crm">>
PasosFase3(disp) ==
    <<"unir_datasets">> \o PasosCrearCosechas(disp)
    \o <<"crear_cosechas", "crear_crm", "crear_comportamiento">>

Exportaciones ==
    {"guardar_Cosechas", "guardar_Cosechas_Eliminados", "guardar_CRM",
     "guardar_Comportamiento", "guardar_BaseFNZ_Completo", "guardar_BaseEdades"}

\* lines 276-302: the export that follows the last call that returned;
\* "" after the last one
SiguienteExportacion(ultimo, hay_eliminados, disp) ==
    CASE ultimo \notin Exportaciones -> "guardar_Cosechas"
      [] ultimo = "guardar_Cosechas" ->
            IF hay_eliminados THEN "guardar_Cosechas_Eliminados" ELSE "guardar_CRM"
      [] ultimo = "guardar_Cosechas_Eliminados" -> "guardar_CRM"
      [] ultimo = "guardar_CRM" -> "guardar_Comportamiento"
      [] ultimo = "guardar_Comportamiento" -> "guardar_BaseFNZ_Completo"
      [] ultimo = "guardar_BaseFNZ_Completo" ->
            IF "EDADES" \in disp THEN "guardar_BaseEdades" ELSE ""
      [] ultimo = "guardar_BaseEdades" -> ""

\* a call of the try block: it returns, or it raises and the handler runs
Llamar(paso, levanta) ==
    IF levanta
    THEN /\ rpc' = "except"
         /\ resumen' = [resumen EXCEPT !.error_critico = <<paso, "excepcion">>]
         /\ UNCHANGED pasos
    ELSE /\ pasos' = Append(pasos, paso)
         /\ UNCHANGED resumen

\* lines 151-201: the next transformer
PasoFase2 ==
    /\ rpc = "fase2"
    /\ LET plan == PasosFase2(disponibles)
       IN IF Len(pasos) = Len(plan)
          THEN rpc' = "fase3" /\ UNCHANGED <<pasos, resumen>>
          ELSE \E levanta \in BOOLEAN :
                  /\ Llamar(plan[Len(pasos) + 1], levanta)
                  /\ ~levanta => UNCHANGED rpc
    /\ UNCHANGED <<cargas, disponibles, advertencias, salida, sinRun>>

\* lines 214-262: the next step of the join and of the builders
PasoFase3 ==
    /\ rpc = "fase3"
    /\ LET plan == PasosFase2(disponibles) \o PasosFase3(disponibles)
       IN IF Len(pasos) = Len(plan)
          THEN rpc' = "fase4" /\ UNCHANGED <<pasos, resumen>>
          ELSE \E levanta \in BOOLEAN :
                  /\ Llamar(plan[Len(pasos) + 1], levanta)
                  /\ ~levanta => UNCHANGED rpc
    /\ UNCHANGED <<cargas, disponibles, advertencias, salida, sinRun>>

\* lines 276-302: the next export
PasoFase4 ==
    /\ rpc = "fase4"
    /\ \E hay_eliminados \in BOOLEAN :
          LET siguiente == SiguienteExportacion(pasos[Len(pasos)], hay_eliminados,
                                                disponibles)
          IN IF siguiente = ""
             THEN rpc' = "resumen" /\ UNCHANGED <<pasos, resumen>>
             ELSE \E levanta \in BOOLEAN :
                     /\ Llamar(siguiente, levanta)
                     /\ ~levanta => UNCHANGED rpc
    /\ UNCHANGED <<cargas, disponibles, advertencias, salida, sinRun>>

NextEtapas ==
    \/ CargarFNZ007 \/ CargarAC \/ CargarFNZ001
    \/ CargarEdades \/ CargarR05 \/ CargarRecaudos \/ CargarAuxiliares
    \/ PasoFase2 \/ PasoFase3 \/ PasoFase4 \/ ResumenFinal \/ ManejarError \/ Salir

SpecEtapas == InitRun /\ [][NextEtapas]_vars

Construcciones == {"unir_datasets", "crear_cosechas", "crear_crm", "crear_comportamiento"}

\* the call that raised is a load, a transformer, the join or a builder
FalloAntesDeExportar ==
    resumen.error_critico # <<>> /\ resumen.error_critico[1] \notin Exportaciones

\* C27: an export runs only after the unified base and the three datasets
\* have been built; when a load, a transformer, the join or a builder fails
\* nothing is exported and the run ends with the summary of the failure.
C27_ExportarDespuesDeConstruir ==
    /\ \A i \in 1..Len(pasos) :
          pasos[i] \in Exportaciones =>
              \A b \in Construcciones : \E j \in 1..(i - 1) : pasos[j] = b
    /\ FalloAntesDeExportar =>
          /\ \A i \in 1..Len(pasos) : pasos[i] \notin Exportaciones
          /\ rpc \in {"except", "exit", "fin"}
          /\ rpc = "fin" => (salida = 1 /\ resumen.escrito /\ ~resumen.exitoso)

C27_Testigo ==
    /\ rpc = "fin" /\ salida = 1
    /\ resumen.escrito /\ ~resumen.exitoso
    /\ resumen.error_critico = <<"crear_comportamiento", "excepcion">>
    /\ Contiene(pasos, "crear_crm")

C27_TestigoExportado ==
    rpc = "fin" /\ salida = 0 /\ Contiene(pasos, "guardar_BaseEdades")


(***************************************************************************)
(* The rows of the collapsed portfolio table (SpecDup).                     *)
(***************************************************************************)
ParesUnaVez ==
    /\ \A k, l \in 1..Len(df_final) : k # l => ~MismoPar(df_final[k], df_final[l])
    /\ Len(df_final) =
          Cardinality({i \in 1..Len(df_ac) : Grupo(i) = {i}})
          + Cardinality({Grupo(i) : i \in {j \in 1..Len(df_ac) : Grupo(j) # {j}}})

\* C28: after the collapsing each (cedula_numero, corte) pair is in at most
\* one row, and the table has as many rows as the input has rows outside
\* duplicate groups plus duplicate groups.
C28_UnParPorFila ==
    dpc = "done" => ParesUnaVez

\* the same for the tables whose rows all have a date
C28_ConFecha ==
    (dpc = "done" /\ \A i \in 1..Len(df_ac) : df_ac[i].corte # NaT) => ParesUnaVez

(***************************************************************************)
(* procesador.py lines 154-157: manejar_duplicados_ac, then                 *)
(* crear_columna_mora_ac, on the column 'diasatras'.  A row is              *)
(* [cedula_numero, corte, diasatras, mora]; the column is numeric           *)
(* (select_dtypes) when none of its cells is a text.                        *)
(***************************************************************************)
\* df.select_dtypes(include=np.number) has 'diasatras'
EsNumerica(df) == \A i \in 1..Len(df) : df[i].diasatras.t # "txt"

\* GroupBy 'sum' of cells: NaN is skipped, no value gives 0
sum_celdas(celdas) ==
    Numero(SumaSeq([i \in 1..Len(celdas) |->
                       IF celdas[i].t = "num" THEN celdas[i].v ELSE 0]))

\* GroupBy 'first' of cells: the first that is not NaN
RECURSIVE first_celdas(_)
first_celdas(celdas) ==
    IF celdas = <<>> THEN NaN
    ELSE IF Head(celdas).t # "nan" THEN Head(celdas) ELSE first_celdas(Tail(celdas))

\* analisis_cartera.py lines 99-113 for 'diasatras': summed when the column
\* is numeric, 'first' otherwise
AgregarGrupoDias(df, g) ==
    LET filas == Filtrar(df_duplicados(df),
                         {i \in 1..Len(df_duplicados(df)) : EnGrupo(df_duplicados(df)[i], g)})
    IN [cedula_numero |-> g[1], corte |-> g[2],
        diasatras |-> IF EsNumerica(df) THEN sum_celdas(Columna(filas, "diasatras"))
                      ELSE first_celdas(Columna(filas, "diasatras")),
        mora |-> "-"]

\* analisis_cartera.py lines 51-130 on these rows
manejar_duplicados_dias(df) ==
    IF duplicados_info(df) = {} THEN df
    ELSE df_unicos(df)
         \o [k \in 1..Len(OrdenarGrupos(duplicados_info(df))) |->
                AgregarGrupoDias(df, OrdenarGrupos(duplicados_info(df))[k])]

FilasDias ==
    {[cedula_numero |-> <<"5", "-", "1">>, corte |-> c, diasatras |-> d, mora |-> "-"] :
        c \in {Cortes[1], Cortes[2]}, d \in {Numero(0), Numero(20), NaN, NoNumerico}}

InitColapso ==
    /\ df_ac \in SeqsUpTo(FilasDias, MaxFilas)
    /\ df_final = <<>>
    /\ dpc = "in"
    /\ SoloDup

ManejarDuplicadosDias ==
    /\ dpc = "in"
    /\ df_final' = manejar_duplicados_dias(df_ac)
    /\ dpc' = "colapsado"
    /\ UNCHANGED <<df_ac, sinDup>>

CrearColumnaMoraTrasColapso ==
    /\ dpc = "colapsado"
    /\ df_final' = [i \in 1..Len(df_final) |-> crear_columna_mora_ac(df_final[i])]
    /\ dpc' = "mora"
    /\ UNCHANGED <<df_ac, sinDup>>

NextColapso == ManejarDuplicadosDias \/ CrearColumnaMoraTrasColapso

SpecColapso == InitColapso /\ [][NextColapso]_vars

\* the bucket of a number of days
MoraDe(n) == np_select(conditions_ac(Numero(n)), choices, NULL)

MoraDeLaSuma ==
    \A i \in 1..Len(df_ac) :
        (/\ Grupo(i) # {i}
         /\ \A j \in Grupo(i) : df_ac[j].diasatras.t = "num") =>
            \A k \in 1..Len(df_final) :
                MismoPar(df_final[k], df_ac[i]) =>
                    df_final[k].mora =
                        MoraDe(SumaSeq([j \in 1..Len(df_ac) |->
                                  IF j \in Grupo(i) THEN df_ac[j].diasatras.v ELSE 0]))

\* C29: the bucket of the row of a collapsed duplicate group is the bucket of
\* the sum of the days past due of the group's rows.
C29_MoraDeLaSuma ==
    dpc = "mora" => MoraDeLaSuma

\* the same for the tables whose 'diasatras' column is numeric
C29_ColumnaNumerica ==
    (dpc = "mora" /\ EsNumerica(df_ac)) => MoraDeLaSuma


(***************************************************************************)
(* The rows of the behaviour pivot that have no reference rating (SpecGap). *)
(***************************************************************************)
EtiquetasMora == {choices[i] : i \in 1..Len(choices)}

SinCalificacionQuedaNulo ==
    \A i \in 1..Len(pivote) :
        /\ pivote[i].calificacion = NULL =>
              /\ ComportamientoH[i].calificacion = NULL
              /\ \A p \in 1..MaxCortes :
                    pivote[i].Mora[p] = NULL => ComportamientoH[i].Mora[p] = NULL
        /\ \A p \in 1..MaxCortes :
              ComportamientoH[i].Mora[p] \in
                  EtiquetasMora \cup {pivote[j].calificacion : j \in 1..Len(pivote)} \cup {NULL}

\* C30: in a row without reference rating the bucket cells that are null
\* stay null and the rating stays null; every bucket cell of the output is a
\* bucket label, a rating of the lookup, or null.
C30_SinCalificacionNulo ==
    hpc = "done" => SinCalificacionQuedaNulo

\* the same when the pivot has no 'calificacion' column
C30_SinColumnaCalificacion ==
    (hpc = "done" /\ ~hay_calificacion) => SinCalificacionQuedaNulo

====
